---- MODULE Spec2Model ----
(***************************************************************************)
(* Limb / LimbInt big-integer arithmetic, the Montgomery and Solinas       *)
(* field strategies and the F<S> field wrapper of cryp_alg, modelled over  *)
(* limbs of LimbBits bits and integers of N limbs.                         *)
(***************************************************************************)
EXTENDS Integers, Sequences, FiniteSets, TLC

\* width of one limb in bits (u32 / u64 in the crate)
LimbBits == 2
\* number of limbs of a LimbInt: the const generic N of LimbInt<u32, 2>
N == 2

VARIABLES params, lhs, other, op, args, ret

vars == <<params, lhs, other, op, args, ret>>

----------------------------------------------------------------------------
(* Limb: one machine word, base b = 2^LimbBits *)

LimbBase == 2 ^ LimbBits

Limbs == 0 .. (LimbBase - 1)

\* b^N, the number of values of an N-limb integer
RADIX == LimbBase ^ N

LimbInts == [1 .. N -> Limbs]

\* reference value of a little-endian limb array
RECURSIVE ValFrom(_, _)
ValFrom(l, i) == IF i > Len(l) THEN 0 ELSE l[i] + LimbBase * ValFrom(l, i + 1)

Val(l) == ValFrom(l, 1)

\* the limb array of a hard-coded integer constant
LimbsOf(v) == [i \in 1 .. N |-> (v \div (LimbBase ^ (i - 1))) % LimbBase]

BitOf(c) == IF c THEN 1 ELSE 0

\* `let v = e; body`: e is evaluated once and its value bound to v
With(e, body(_)) == CHOOSE r \in {body(v) : v \in {e}} : TRUE

add_carry_single_flag(a, rhs, carry) ==
    LET s1 == a + rhs
        x  == s1 % LimbBase
        s2 == x + BitOf(carry)
    IN  <<s2 % LimbBase, s1 >= LimbBase>>

\* (a, b) = self.overflowing_add(rhs); (c, d) = a.overflowing_add(carry)
add_carry(a, rhs, carry) ==
    LET s1 == a + rhs
        x  == s1 % LimbBase
        b1 == s1 >= LimbBase
        s2 == x + BitOf(carry)
        d  == s2 >= LimbBase
    IN  <<s2 % LimbBase, b1 \/ d>>

\* (a, b) = self.overflowing_sub(rhs); (c, d) = a.overflowing_sub(carry)
sub_carry(a, rhs, carry) ==
    LET x  == (a + LimbBase - rhs) % LimbBase
        b1 == a < rhs
        c  == (x + LimbBase - BitOf(carry)) % LimbBase
        d  == x < BitOf(carry)
    IN  <<c, b1 \/ d>>

\* the double-width product plus carry, split into its low and high limb
mul_carry(a, rhs, carry) ==
    LET mul == a * rhs + carry
    IN  <<mul % LimbBase, mul \div LimbBase>>

----------------------------------------------------------------------------
(* LimbInt<L, N> *)

LimbInt_zero == [i \in 1 .. N |-> 0]

LimbInt_one == [i \in 1 .. N |-> IF i = 1 THEN 1 ELSE 0]

\* A loop `for i in 0..N` is the function st with st[0] the state before the
\* loop and st[i] the state after the iteration on limb i (1-based).

\* one iteration of carrying_add; st = <<limbs, carry>>
carrying_add_step(self, rhs, i, st) ==
    With(add_carry(self[i], rhs[i], st[2]), LAMBDA r :
        <<[st[1] EXCEPT ![i] = r[1]], r[2]>>)

carrying_add(self, rhs, carry) ==
    LET st[i \in 0 .. N] ==
            IF i = 0 THEN <<LimbInt_zero, carry>>
            ELSE With(st[i - 1], LAMBDA prev : carrying_add_step(self, rhs, i, prev))
    IN  st[N]

\* one iteration of carrying_sub; st = <<limbs, carry>>
carrying_sub_step(self, rhs, i, st) ==
    With(sub_carry(self[i], rhs[i], st[2]), LAMBDA r :
        <<[st[1] EXCEPT ![i] = r[1]], r[2]>>)

carrying_sub(self, rhs, carry) ==
    LET st[i \in 0 .. N] ==
            IF i = 0 THEN <<LimbInt_zero, carry>>
            ELSE With(st[i - 1], LAMBDA prev : carrying_sub_step(self, rhs, i, prev))
    IN  st[N]

\* the body of both inner loops of carrying_mul for row i and column j
\* (0-based); w = <<w_l, w_h, c, asserts>>, asserts recording the
\* debug_assert!s; columns j < N - i write w_l, the others w_h
carrying_mul_inner(self, rl, i, j, w) ==
    LET lo == j < N - i
        k  == IF lo THEN i + j + 1 ELSE i + j - N + 1
    IN  With(mul_carry(self[j + 1], rl, w[3]), LAMBDA m :
        With(add_carry(m[1], IF lo THEN w[1][k] ELSE w[2][k], FALSE), LAMBDA a1 :
        With(add_carry(m[2], 0, a1[2]), LAMBDA a2 :
            << IF lo THEN [w[1] EXCEPT ![k] = a1[1]] ELSE w[1],
               IF lo THEN w[2] ELSE [w[2] EXCEPT ![k] = a1[1]],
               a2[1],
               w[4] /\ ~a2[2] >>)))

\* one iteration of the outer loop of carrying_mul: row i (0-based)
carrying_mul_row(self, rhs, i, w) ==
    LET st[j \in 0 .. N] ==
            IF j = 0 THEN <<w[1], w[2], 0, w[4]>>
            ELSE With(st[j - 1], LAMBDA prev :
                     carrying_mul_inner(self, rhs[i + 1], i, j - 1, prev))
    IN  With(st[N], LAMBDA r : <<r[1], [r[2] EXCEPT ![i + 1] = r[3]], 0, r[4]>>)

\* the outer loop of carrying_mul over the limbs of rhs
carrying_mul_rows(self, rhs) ==
    LET st[i \in 0 .. N] ==
            IF i = 0 THEN <<LimbInt_zero, LimbInt_zero, 0, TRUE>>
            ELSE With(st[i - 1], LAMBDA prev : carrying_mul_row(self, rhs, i - 1, prev))
    IN  st[N]

\* carrying_mul without the addition of the low half's carry to w_h
carrying_mul_drop_flag(self, rhs, carry) ==
    With(carrying_mul_rows(self, rhs), LAMBDA w :
        <<carrying_add(w[1], carry, FALSE)[1], w[2], w[4]>>)

\* <<res_l, res_h, assertions passed>>
carrying_mul_full(self, rhs, carry) ==
    With(carrying_mul_rows(self, rhs), LAMBDA w :
    With(carrying_add(w[1], carry, FALSE), LAMBDA l :
    With(carrying_add(w[2], IF l[2] THEN LimbInt_one ELSE LimbInt_zero, FALSE), LAMBDA h :
        <<l[1], h[1], w[4] /\ ~h[2]>>)))

carrying_mul(self, rhs, carry) ==
    With(carrying_mul_full(self, rhs, carry), LAMBDA r : <<r[1], r[2]>>)

\* the last differing limb decides: the loop body without the flag
le_step_unflagged(self, o, i, st) ==
    IF self[i] # o[i] THEN <<self[i] < o[i], FALSE>> ELSE st

\* LimbInt::le: the first differing limb from the top decides
\* one iteration on limb i; st = <<res, flag>>
le_step(self, o, i, st) ==
    IF self[i] # o[i] /\ st[2] THEN <<self[i] < o[i], FALSE>> ELSE st

\* the loop runs over the limbs N .. 1, st[k] being the state after k limbs
le(self, o) ==
    LET st[k \in 0 .. N] ==
            IF k = 0 THEN <<TRUE, TRUE>>
            ELSE With(st[k - 1], LAMBDA prev : le_step(self, o, N + 1 - k, prev))
    IN  st[N][1]

----------------------------------------------------------------------------
(* Integer / Bits: the big-endian bit sequence of an exponent *)

\* bit k (0 = least significant) of one limb
LimbBit(l, k) == (l \div (2 ^ k)) % 2 = 1

\* Bits::into_iter_be: limbs most significant first, each limb's bits
\* most significant first
Bits_into_iter_be(e) ==
    [k \in 1 .. (Len(e) * LimbBits) |->
        LimbBit(e[Len(e) - ((k - 1) \div LimbBits)],
                LimbBits - 1 - ((k - 1) % LimbBits))]

----------------------------------------------------------------------------
(* MontParameters / MontgomeryOperations<N, P> *)

\* a fatal failure (panic) of the operation
Panic == <<"panic">>

\* m' = -p^(-1) mod b
MontMP(p) == CHOOSE m \in Limbs : (m * p + 1) % LimbBase = 0

\* the constants a consumer supplies for the odd modulus p
MontParameters(p) ==
    [strategy |-> "montgomery",
     MODULUS  |-> LimbsOf(p),
     MP       |-> MontMP(p),
     R2       |-> LimbsOf((RADIX * RADIX) % p),
     R        |-> LimbsOf(RADIX % p)]

OddModuli == {p \in 1 .. (RADIX - 1) : p % 2 = 1}

\* round i (0-based) of the reduction loop; a = <<a_l, a_r>>
montgomery_round(P, i, a) ==
    With(mul_carry(a[1][i + 1], P.MP, 0)[1], LAMBDA u :
    With([LimbInt_zero EXCEPT ![i + 1] = u], LAMBDA ubi :
    With(carrying_mul(P.MODULUS, ubi, LimbInt_zero), LAMBDA umbi :
    With(carrying_add(a[1], umbi[1], FALSE), LAMBDA a_0 :
    With(carrying_add(a[2], umbi[2], a_0[2]), LAMBDA a_1 :
        <<a_0[1], a_1[1]>>)))))

montgomery_rounds(P, element) ==
    LET st[i \in 0 .. N] ==
            IF i = 0 THEN element
            ELSE With(st[i - 1], LAMBDA prev : montgomery_round(P, i - 1, prev))
    IN  st[N]

\* assert_eq!(a_l.limbs, [ZERO; N]), then the conditional subtraction
montgomery_reduction(P, element) ==
    With(montgomery_rounds(P, element), LAMBDA a :
        IF a[1] # LimbInt_zero THEN Panic
        ELSE With(carrying_sub(a[2], P.MODULUS, FALSE), LAMBDA e :
                 IF e[2] = FALSE THEN e[1] ELSE a[2]))

montgomery_mul(P, element, o) ==
    montgomery_reduction(P, carrying_mul(element, o, LimbInt_zero))

Montgomery_zero(P) == LimbInt_zero

Montgomery_one(P) == P.R

is_zero(P, element) == \A i \in 1 .. N : element[i] = 0

Montgomery_as_int(P, element) == montgomery_mul(P, element, LimbInt_one)

Montgomery_reduce(P, element) ==
    montgomery_reduction(P, carrying_mul(element, P.R2, LimbInt_zero))

----------------------------------------------------------------------------
(* SolinasParameters / SolinasReduction / GeneralReductionOperations<N, P> *)

\* the constants a consumer supplies for the modulus b^N - C
SolinasParameters(C) ==
    [strategy |-> "solinas",
     MODULUS  |-> LimbsOf(RADIX - C),
     C        |-> C]

SolinasConstants == 1 .. (LimbBase - 1)

\* while a_h != 0 { (a_l, a_h) = a_h * c_vec + a_l }
RECURSIVE Solinas_fold(_, _)
Solinas_fold(c_vec, a) ==
    IF a[2] = LimbInt_zero THEN a[1]
    ELSE With(carrying_mul(a[2], c_vec, a[1]), LAMBDA nxt : Solinas_fold(c_vec, nxt))

\* a single conditional subtraction in place of the loop
Solinas_sub_once(modules, a_l) ==
    IF le(modules, a_l) THEN carrying_sub(a_l, modules, FALSE)[1] ELSE a_l

\* while MODULUS <= a_l { a_l -= MODULUS }
RECURSIVE Solinas_sub(_, _)
Solinas_sub(modules, a_l) ==
    IF le(modules, a_l)
    THEN With(carrying_sub(a_l, modules, FALSE)[1], LAMBDA nxt : Solinas_sub(modules, nxt))
    ELSE a_l

Solinas_reduction(P, element) ==
    With([LimbInt_zero EXCEPT ![1] = P.C], LAMBDA c_vec :
    With(carrying_mul(element[2], c_vec, element[1]), LAMBDA first :
    With(Solinas_fold(c_vec, first), LAMBDA a_l :
        Solinas_sub(P.MODULUS, a_l))))

GeneralReduction_zero(P) == LimbInt_zero

GeneralReduction_one(P) == LimbInt_one

GeneralReduction_as_int(P, element) == element

GeneralReduction_reduce(P, element) ==
    Solinas_reduction(P, <<element, LimbInt_zero>>)

GeneralReduction_mul_assign(P, l, o) ==
    Solinas_reduction(P, carrying_mul(l, o, LimbInt_zero))

----------------------------------------------------------------------------
(* PrimeFieldOperations: the strategy interface; every *_assign operator  *)
(* returns the new value of the element it assigns                         *)

zero(P) == IF P.strategy = "montgomery" THEN Montgomery_zero(P)
           ELSE GeneralReduction_zero(P)

one(P) == IF P.strategy = "montgomery" THEN Montgomery_one(P)
          ELSE GeneralReduction_one(P)

as_int(P, element) ==
    IF P.strategy = "montgomery" THEN Montgomery_as_int(P, element)
    ELSE GeneralReduction_as_int(P, element)

reduce(P, element) ==
    IF P.strategy = "montgomery" THEN Montgomery_reduce(P, element)
    ELSE GeneralReduction_reduce(P, element)

add_assign_no_correction(P, l, o) == carrying_add(l, o, FALSE)[1]

\* identical in MontgomeryOperations and GeneralReductionOperations
add_assign(P, l, o) ==
    With(carrying_add(l, o, FALSE), LAMBDA d :
    With(carrying_sub(d[1], P.MODULUS, FALSE), LAMBDA e :
        IF d[2] = e[2] THEN e[1] ELSE d[1]))

sub_assign_no_correction(P, l, o) == carrying_sub(l, o, FALSE)[1]

\* identical in MontgomeryOperations and GeneralReductionOperations
sub_assign(P, l, o) ==
    With(carrying_sub(l, o, FALSE), LAMBDA d :
    With(carrying_add(d[1], P.MODULUS, FALSE), LAMBDA e :
        IF d[2] = FALSE THEN d[1] ELSE e[1]))

mul_assign(P, l, o) ==
    IF P.strategy = "montgomery" THEN montgomery_mul(P, l, o)
    ELSE GeneralReduction_mul_assign(P, l, o)

equals(P, l, rhs) == is_zero(P, sub_assign(P, l, rhs))

negation_in_place_unreduced(P, element) ==
    carrying_sub(P.MODULUS, element, FALSE)[1]

negation_in_place(P, element) == sub_assign(P, zero(P), element)

square_assign(P, element) == mul_assign(P, element, element)

double_assign(P, element) == add_assign(P, element, element)

\* one iteration of the ladder of exp; s = <<res, base>>
exp_step(P, bit, s) ==
    IF bit
    THEN <<mul_assign(P, s[1], s[2]), square_assign(P, s[2])>>
    ELSE <<square_assign(P, s[1]), mul_assign(P, s[2], s[1])>>

exp(P, element, e) ==
    With(Bits_into_iter_be(e), LAMBDA bits :
        LET st[k \in 0 .. Len(bits)] ==
                IF k = 0 THEN <<one(P), element>>
                ELSE With(st[k - 1], LAMBDA prev : exp_step(P, bits[k], prev))
        IN  st[Len(bits)][1])

\* Option<BigInt>
None == <<>>

Some(v) == <<v>>

inverse(P, element) ==
    With(add_assign(P, one(P), one(P)), LAMBDA two :
    With(negation_in_place(P, two), LAMBDA modulus_minus_two :
    With(as_int(P, modulus_minus_two), LAMBDA power :
    With(exp(P, element, power), LAMBDA res :
        IF is_zero(P, res) THEN None ELSE Some(res)))))

\* the stored values a field element may hold: the integers below MODULUS
StoredElements(P) == {x \in LimbInts : Val(x) < Val(P.MODULUS)}

\* every strategy a consumer can instantiate: Montgomery with an odd
\* modulus, Solinas reduction with the modulus b^N - C
AllParameters ==
    {MontParameters(p) : p \in OddModuli} \cup {SolinasParameters(C) : C \in SolinasConstants}

IsPrime(p) == p > 1 /\ \A d \in 2 .. (p - 1) : p % d # 0

\* the strategies of prime fields
FieldParameters == {P \in AllParameters : IsPrime(Val(P.MODULUS))}

----------------------------------------------------------------------------
(* F<S>: the field element wrapper; every operator forwards to the         *)
(* strategy S and is given here on the stored values                       *)

F_add(P, l, o) == add_assign(P, l, o)

F_sub(P, l, o) == sub_assign(P, l, o)

F_neg(P, x) == negation_in_place(P, x)

F_eq(P, l, o) == equals(P, l, o)

InField(P, x) == P \in FieldParameters /\ x \in StoredElements(P)

\* S::mul_assign on the elements of the prime fields, evaluated once (the
\* equality tabulates the function)
mul_assign_table ==
    CHOOSE f \in {[P \in FieldParameters |->
                     [l \in StoredElements(P) |->
                        [o \in StoredElements(P) |-> mul_assign(P, l, o)]]]} : f = f

F_mul(P, l, o) ==
    IF InField(P, l) /\ InField(P, o) THEN mul_assign_table[P][l][o]
    ELSE mul_assign(P, l, o)

\* S::inverse on the elements of the prime fields, evaluated once
inverse_table ==
    CHOOSE f \in {[P \in FieldParameters |->
                     [x \in StoredElements(P) |-> inverse(P, x)]]} : f = f

F_inverse(P, x) ==
    IF InField(P, x) THEN inverse_table[P][x] ELSE inverse(P, x)

\* S::as_int on the elements of the prime fields, evaluated once
as_int_table ==
    CHOOSE f \in {[P \in FieldParameters |->
                     [x \in StoredElements(P) |-> as_int(P, x)]]} : f = f

\* PrimeField::as_int
F_as_int(P, x) ==
    IF InField(P, x) THEN as_int_table[P][x] ELSE as_int(P, x)

\* div_assign: S::inverse(other).expect("Division by zero"), then mul_assign
F_div(P, l, o) ==
    With(F_inverse(P, o), LAMBDA inv :
        IF inv = None THEN Panic ELSE F_mul(P, l, inv[1]))

\* Field::square_in_place: square_assign multiplies the element by its copy
F_square(P, x) == F_mul(P, x, x)

\* Field::double_in_place
F_double(P, x) == double_assign(P, x)

----------------------------------------------------------------------------
(* Harness state shared by the specifications *)

NoParams == [strategy |-> "none"]

Idle == /\ op = "idle"

Reset ==
    /\ op # "idle"
    /\ op' = "idle"
    /\ args' = <<>>
    /\ ret' = <<>>
    /\ UNCHANGED <<params, lhs, other>>

----------------------------------------------------------------------------
(* SpecLimb: the LimbInt primitives applied to arbitrary inputs *)

InitLimb ==
    /\ params = NoParams
    /\ lhs = LimbInt_zero
    /\ other = LimbInt_zero
    /\ op = "idle"
    /\ args = <<>>
    /\ ret = <<>>

CarryingAdd ==
    /\ Idle
    /\ \E a \in LimbInts, b \in LimbInts, c \in BOOLEAN :
          /\ args' = <<a, b, c>>
          /\ ret' = carrying_add(a, b, c)
    /\ op' = "carrying_add"
    /\ UNCHANGED <<params, lhs, other>>

CarryingSub ==
    /\ Idle
    /\ \E a \in LimbInts, b \in LimbInts, c \in BOOLEAN :
          /\ args' = <<a, b, c>>
          /\ ret' = carrying_sub(a, b, c)
    /\ op' = "carrying_sub"
    /\ UNCHANGED <<params, lhs, other>>

CarryingMul ==
    /\ Idle
    /\ \E a \in LimbInts, b \in LimbInts, c \in LimbInts :
          /\ args' = <<a, b, c>>
          /\ \E r \in {carrying_mul_full(a, b, c)} : ret' = <<<<r[1], r[2]>>, r[3]>>
    /\ op' = "carrying_mul"
    /\ UNCHANGED <<params, lhs, other>>

NextLimb == CarryingAdd \/ CarryingSub \/ CarryingMul \/ Reset

SpecLimb == InitLimb /\ [][NextLimb]_vars

\* C1: carrying_mul(self, rhs, carry) returns (low, high) with
\* low + high * b^N = self * rhs + carry, and none of its assertions fails.
C1_CarryingMulExact ==
    op = "carrying_mul" =>
        /\ Val(ret[1][1]) + Val(ret[1][2]) * RADIX
              = Val(args[1]) * Val(args[2]) + Val(args[3])
        /\ ret[2]

\* a product whose low half overflows when the carry term is added
C1_Witness ==
    /\ op = "carrying_mul"
    /\ Val(args[1]) * Val(args[2]) + Val(args[3]) >= RADIX
    /\ ((Val(args[1]) * Val(args[2])) % RADIX) + Val(args[3]) >= RADIX
    /\ Val(ret[1][2]) > 0

\* C2: carrying_add returns (s, c_out) with s + c_out * b^N = a + b + c and
\* carrying_sub returns (d, borrow) with d - borrow * b^N = a - b - c.
C2_CarryingAddSubExact ==
    /\ op = "carrying_add" =>
          Val(ret[1]) + BitOf(ret[2]) * RADIX
              = Val(args[1]) + Val(args[2]) + BitOf(args[3])
    /\ op = "carrying_sub" =>
          Val(ret[1]) - BitOf(ret[2]) * RADIX
              = Val(args[1]) - Val(args[2]) - BitOf(args[3])

\* an addition whose carry out comes only from the incoming carry bit
C2_Witness ==
    /\ op = "carrying_add"
    /\ args[3]
    /\ Val(args[1]) + Val(args[2]) = RADIX - 1
    /\ ret[2]

----------------------------------------------------------------------------
(* SpecMont: Montgomery multiplication, reduction and the conversions     *)
(* from_int / as_int of F<MontgomeryOperations>, for every odd modulus     *)

\* longest chain of conversions applied to one element
MaxCalls == 4

Modulus == Val(params.MODULUS)

InitMont ==
    /\ params \in {MontParameters(p) : p \in OddModuli}
    /\ lhs = LimbInt_zero
    /\ other = LimbInt_zero
    /\ op = "idle"
    /\ args = <<>>
    /\ ret = <<>>

MontgomeryMul ==
    /\ Idle
    /\ \E a \in StoredElements(params), b \in StoredElements(params) :
          /\ args' = <<a, b>>
          /\ ret' = montgomery_mul(params, a, b)
    /\ op' = "montgomery_mul"
    /\ UNCHANGED <<params, lhs, other>>

\* test_montgomery_reduction_*: the product of two arbitrary integers
MontgomeryReduction ==
    /\ Idle
    /\ \E a \in LimbInts, b \in LimbInts :
          /\ args' = <<a, b>>
          /\ ret' = montgomery_reduction(params, carrying_mul(a, b, LimbInt_zero))
    /\ op' = "montgomery_reduction"
    /\ UNCHANGED <<params, lhs, other>>

Call(f, in, out) == [f |-> f, in |-> in, out |-> out]

\* F::from_RAW_limbs: a hard-coded element in the stored representation
FromRawLimbs ==
    /\ Idle
    /\ \E x \in StoredElements(params) :
          /\ lhs' = x
          /\ args' = <<Call("from_RAW_limbs", x, x)>>
    /\ op' = "from_RAW_limbs"
    /\ ret' = <<>>
    /\ UNCHANGED <<params, other>>

\* PrimeField::from_int of a fresh integer, or of the integer as_int returned
FromInt ==
    /\ \E n \in LimbInts :
          /\ \/ Idle
             \/ op = "as_int" /\ Len(args) < MaxCalls /\ n = ret
          /\ \E x \in {reduce(params, n)} :
                /\ lhs' = x
                /\ args' = Append(args, Call("from_int", n, x))
    /\ op' = "from_int"
    /\ UNCHANGED <<params, other, ret>>

\* PrimeField::as_int of the current element
AsInt ==
    /\ op \in {"from_RAW_limbs", "from_int"}
    /\ Len(args) < MaxCalls
    /\ \E n \in {as_int(params, lhs)} :
          /\ ret' = n
          /\ args' = Append(args, Call("as_int", lhs, n))
    /\ op' = "as_int"
    /\ UNCHANGED <<params, lhs, other>>

NextMont ==
    MontgomeryMul \/ MontgomeryReduction \/ FromRawLimbs \/ FromInt \/ AsInt \/ Reset

SpecMont == InitMont /\ [][NextMont]_vars

\* C3: for every odd modulus p < b^N and all stored a, b < p,
\* montgomery_mul(a, b) is the canonical a * b * R^-1 mod p.
C3_MontgomeryMulExact ==
    op = "montgomery_mul" =>
        /\ Val(ret) < Modulus
        /\ (Val(ret) * RADIX) % Modulus = (Val(args[1]) * Val(args[2])) % Modulus

\* C4: for arbitrary N-limb a, b, montgomery_reduction(carrying_mul(a, b, 0))
\* passes its low-half-zero assertion and returns r with r * R = a * b mod p.
C4_MontgomeryReductionCongruent ==
    op = "montgomery_reduction" =>
        /\ ret # Panic
        /\ (Val(ret) * RADIX) % Modulus = (Val(args[1]) * Val(args[2])) % Modulus

InConversions == op \in {"from_RAW_limbs", "from_int", "as_int"}

\* C5: as_int(from_int(n)) = n for every n < p, as_int(from_int(as_int(x)))
\* = as_int(x) for every stored x, and as_int always returns a value < p.
C5_MontgomeryRoundTrip ==
    InConversions =>
        \A k \in 1 .. Len(args) :
            args[k].f = "as_int" =>
                /\ Val(args[k].out) < Modulus
                /\ (k > 1 /\ args[k - 1].f = "from_int" /\ Val(args[k - 1].in) < Modulus)
                      => args[k].out = args[k - 1].in
                /\ (k > 2 /\ args[k - 1].f = "from_int" /\ args[k - 2].f = "as_int")
                      => args[k].out = args[k - 2].out

----------------------------------------------------------------------------
(* SpecField: two field elements of F<S> under the in-place operations     *)

\* the elements zero(), one() and from_int(n) construct
Constructed(P) == {zero(P), one(P)} \cup {reduce(P, n) : n \in LimbInts}

InitField ==
    /\ params \in FieldParameters
    /\ lhs \in Constructed(params)
    /\ other \in Constructed(params)
    /\ op = "new"
    /\ args = <<>>
    /\ ret = <<>>

AddAssign ==
    /\ lhs' = F_add(params, lhs, other)
    /\ op' = "add_assign"
    /\ UNCHANGED <<params, other, args, ret>>

SubAssign ==
    /\ lhs' = F_sub(params, lhs, other)
    /\ op' = "sub_assign"
    /\ UNCHANGED <<params, other, args, ret>>

MulAssign ==
    /\ lhs' = F_mul(params, lhs, other)
    /\ op' = "mul_assign"
    /\ UNCHANGED <<params, other, args, ret>>

Neg ==
    /\ lhs' = F_neg(params, lhs)
    /\ op' = "neg"
    /\ UNCHANGED <<params, other, args, ret>>

SquareInPlace ==
    /\ lhs' = F_square(params, lhs)
    /\ op' = "square_in_place"
    /\ UNCHANGED <<params, other, args, ret>>

DoubleInPlace ==
    /\ lhs' = F_double(params, lhs)
    /\ op' = "double_in_place"
    /\ UNCHANGED <<params, other, args, ret>>

\* lhs = lhs.inverse() when there is one
Inverse ==
    /\ \E r \in {F_inverse(params, lhs)} :
          lhs' = IF r = None THEN lhs ELSE r[1]
    /\ op' = "inverse"
    /\ UNCHANGED <<params, other, args, ret>>

\* F<S> is Copy: other = lhs
Copy ==
    /\ other' = lhs
    /\ op' = "copy"
    /\ UNCHANGED <<params, lhs, args, ret>>

NextField ==
    \/ AddAssign \/ SubAssign \/ MulAssign \/ Neg
    \/ SquareInPlace \/ DoubleInPlace \/ Inverse \/ Copy

SpecField == InitField /\ [][NextField]_vars

\* C6: after any sequence of add_assign, sub_assign, mul_assign, negation,
\* squaring, doubling and inverse every stored value is below MODULUS.
C6_StoredBelowModulus ==
    /\ Val(lhs) < Modulus
    /\ Val(other) < Modulus

\* a product that is the largest element of a field with a large modulus
C6_Witness ==
    /\ op = "mul_assign"
    /\ 2 * Modulus > RADIX
    /\ Val(lhs) = Modulus - 1
    /\ Val(other) > 1

----------------------------------------------------------------------------
(* SpecAddSub: one add_assign / sub_assign on two elements of any field    *)

InitAddSub ==
    /\ params \in AllParameters
    /\ lhs \in StoredElements(params)
    /\ other \in StoredElements(params)
    /\ op = "new"
    /\ args = <<>>
    /\ ret = <<>>

\* lhs += &other
OpAddAssign ==
    /\ op = "new"
    /\ lhs' = F_add(params, lhs, other)
    /\ args' = <<lhs, other>>
    /\ op' = "add_assign"
    /\ UNCHANGED <<params, other, ret>>

\* lhs -= &other
OpSubAssign ==
    /\ op = "new"
    /\ lhs' = F_sub(params, lhs, other)
    /\ args' = <<lhs, other>>
    /\ op' = "sub_assign"
    /\ UNCHANGED <<params, other, ret>>

NextAddSub == OpAddAssign \/ OpSubAssign

SpecAddSub == InitAddSub /\ [][NextAddSub]_vars

\* C7: add_assign leaves (a + b) mod p and sub_assign leaves (a - b) mod p
\* in lhs, for every modulus, and the operand other keeps its value.
C7_AddSubModular ==
    /\ op = "add_assign" =>
          /\ Val(lhs) = (Val(args[1]) + Val(args[2])) % Modulus
          /\ other = args[2]
    /\ op = "sub_assign" =>
          /\ Val(lhs) = (Val(args[1]) + Modulus - Val(args[2])) % Modulus
          /\ other = args[2]

\* an addition whose raw N-limb sum overflows b^N
C7_Witness ==
    /\ op = "add_assign"
    /\ Val(args[1]) + Val(args[2]) >= RADIX
    /\ Val(lhs) = Val(args[1]) + Val(args[2]) - Modulus

----------------------------------------------------------------------------
(* SpecFieldOps: the operators of F<S> on two elements of a prime field,   *)
(* as FieldTests and the field tests apply them                            *)

\* the third operand c of (a + b) + c lies within MaxThird of zero or of
\* the modulus
MaxThird == 2

ThirdOperands(P) ==
    {c \in StoredElements(P) :
        Val(c) < MaxThird \/ Val(c) + MaxThird >= Val(P.MODULUS)}

InitFieldOps ==
    /\ params \in FieldParameters
    /\ lhs \in StoredElements(params)
    /\ other \in StoredElements(params)
    /\ op = "new"
    /\ args = <<>>
    /\ ret = <<>>

\* FieldTests::test_zero: element + zero, zero + element, element * zero,
\* zero * element
test_zero ==
    /\ op = "new"
    /\ ret' = << F_add(params, lhs, zero(params)), F_add(params, zero(params), lhs),
                 F_mul(params, lhs, zero(params)), F_mul(params, zero(params), lhs) >>
    /\ args' = <<lhs>>
    /\ op' = "test_zero"
    /\ UNCHANGED <<params, lhs, other>>

\* FieldTests::test_additive_commutes: element + other, other + element
test_additive_commutes ==
    /\ op = "new"
    /\ ret' = <<F_add(params, lhs, other), F_add(params, other, lhs)>>
    /\ args' = <<lhs, other>>
    /\ op' = "test_additive_commutes"
    /\ UNCHANGED <<params, lhs, other>>

\* FieldTests::test_mul_commutes: element * other, other * element
test_mul_commutes ==
    /\ op = "new"
    /\ ret' = <<F_mul(params, lhs, other), F_mul(params, other, lhs)>>
    /\ args' = <<lhs, other>>
    /\ op' = "test_mul_commutes"
    /\ UNCHANGED <<params, lhs, other>>

\* (a + b) + c and a + (b + c)
AddAssociates ==
    /\ op = "new"
    /\ \E c \in ThirdOperands(params) :
          /\ ret' = << F_add(params, F_add(params, lhs, other), c),
                       F_add(params, lhs, F_add(params, other, c)) >>
          /\ args' = <<lhs, other, c>>
    /\ op' = "add_associates"
    /\ UNCHANGED <<params, lhs, other>>

\* a + (-a)
AddNegation ==
    /\ op = "new"
    /\ ret' = <<F_add(params, lhs, F_neg(params, lhs))>>
    /\ args' = <<lhs>>
    /\ op' = "add_negation"
    /\ UNCHANGED <<params, lhs, other>>

\* lhs.inverse(), and lhs * y when the inverse is Some(y)
OpInverse ==
    /\ op = "new"
    /\ \E r \in {F_inverse(params, lhs)} :
          ret' = <<r, IF r = None THEN None ELSE Some(F_mul(params, lhs, r[1]))>>
    /\ args' = <<lhs>>
    /\ op' = "inverse"
    /\ UNCHANGED <<params, lhs, other>>

\* lhs / other
OpDiv ==
    /\ op = "new"
    /\ ret' = F_div(params, lhs, other)
    /\ args' = <<lhs, other>>
    /\ op' = "div"
    /\ UNCHANGED <<params, lhs, other>>

NextFieldOps ==
    \/ test_zero \/ test_additive_commutes \/ test_mul_commutes
    \/ AddAssociates \/ AddNegation \/ OpInverse \/ OpDiv

SpecFieldOps == InitFieldOps /\ [][NextFieldOps]_vars

\* C8: a + b == b + a, a * b == b * a, (a + b) + c == a + (b + c),
\* a + (-a) == zero, a + zero == a and a * zero == zero, == being F<S>::eq.
C8_FieldAxioms ==
    /\ op \in {"test_additive_commutes", "test_mul_commutes", "add_associates"} =>
          F_eq(params, ret[1], ret[2])
    /\ op = "add_negation" => F_eq(params, ret[1], zero(params))
    /\ op = "test_zero" =>
          /\ F_eq(params, ret[1], args[1])
          /\ F_eq(params, ret[2], args[1])
          /\ F_eq(params, ret[3], zero(params))
          /\ F_eq(params, ret[4], zero(params))

\* (a + b) + c where a + b wraps around the modulus and b + c does not
C8_Witness ==
    /\ op = "add_associates"
    /\ Val(args[1]) + Val(args[2]) >= Modulus
    /\ Val(args[3]) > 0
    /\ Val(args[2]) + Val(args[3]) < Modulus
    /\ ret[1] = ret[2]

\* C9: in a prime field inverse(x) is None exactly when x is zero, and for
\* a nonzero x it is Some(y) with x * y == one.
C9_InverseOfNonzero ==
    op = "inverse" =>
        /\ (ret[1] = None) <=> is_zero(params, args[1])
        /\ ret[1] # None => F_eq(params, ret[2][1], one(params))

\* C10: a / b panics when b is zero and never returns an element; for a
\* nonzero b it returns a * inverse(b).
C10_DivisionByZeroOnly ==
    op = "div" =>
        /\ (ret = Panic) <=> is_zero(params, args[2])
        /\ ret # Panic =>
              ret = F_mul(params, args[1], F_inverse(params, args[2])[1])

----------------------------------------------------------------------------
(* SpecExp: PrimeFieldOperations::exp on an exponent given as limbs        *)

MaxExpLimbs == 2

\* the exponents: every little-endian limb sequence of 1 .. MaxExpLimbs limbs
Exponents == UNION {[1 .. n -> Limbs] : n \in 1 .. MaxExpLimbs}

InitExp ==
    /\ params \in FieldParameters
    /\ lhs \in StoredElements(params)
    /\ other = zero(params)
    /\ op = "new"
    /\ args = <<>>
    /\ ret = <<>>

\* lhs.exp(&e), and lhs.exp of e with one most-significant zero limb appended
OpExp ==
    /\ op = "new"
    /\ \E e \in Exponents :
          /\ ret' = <<exp(params, lhs, e), exp(params, lhs, Append(e, 0))>>
          /\ args' = <<lhs, e>>
    /\ op' = "exp"
    /\ UNCHANGED <<params, lhs, other>>

NextExp == OpExp

SpecExp == InitExp /\ [][NextExp]_vars

\* b^k mod m by repeated squaring
RECURSIVE PowMod(_, _, _)
PowMod(b, k, m) ==
    IF k = 0 THEN 1 % m
    ELSE LET h == PowMod(b, k \div 2, m)
         IN  IF k % 2 = 0 THEN (h * h) % m ELSE (((h * h) % m) * b) % m

\* the factor by which the strategy scales the stored value: R mod p in
\* Montgomery form, 1 otherwise
StoredScale(P) == IF P.strategy = "montgomery" THEN RADIX % Val(P.MODULUS) ELSE 1

\* the stored value r represents x^k, x being the element stored as s
IsPower(P, r, s, k) ==
    /\ Val(r) < Val(P.MODULUS)
    /\ (Val(r) * PowMod(StoredScale(P), k, Val(P.MODULUS))) % Val(P.MODULUS)
          = (PowMod(Val(s), k, Val(P.MODULUS)) * StoredScale(P)) % Val(P.MODULUS)

\* C11: exp(x, e) is x^e for the numeric value e of the limbs, the result
\* does not change when a most-significant zero limb is appended, and
\* exp(x, 0) is one.
C11_ExpIsPower ==
    op = "exp" =>
        /\ IsPower(params, ret[1], args[1], Val(args[2]))
        /\ ret[2] = ret[1]
        /\ Val(args[2]) = 0 => ret[1] = one(params)

----------------------------------------------------------------------------
(* SpecSolinas: SolinasReduction::reduction on double-width inputs         *)

\* every SolinasParameters with b^N = C mod MODULUS: the modulus b^N - C
\* and its divisors (2^255 - 19 with C = 38 is (b^N - C) / 2)
SolinasDivisorParameters ==
    {[strategy |-> "solinas", MODULUS |-> LimbsOf(p), C |-> C] :
        <<p, C>> \in {pc \in (2 .. (RADIX - 1)) \X SolinasConstants :
                         (RADIX - pc[2]) % pc[1] = 0}}

\* the input is element = (lhs, other) = (a_l, a_h)
InitSolinas ==
    /\ params \in SolinasDivisorParameters
    /\ lhs \in LimbInts
    /\ other \in LimbInts
    /\ op = "new"
    /\ args = <<>>
    /\ ret = <<>>

OpReduction ==
    /\ op = "new"
    /\ ret' = Solinas_reduction(params, <<lhs, other>>)
    /\ args' = <<lhs, other>>
    /\ op' = "reduction"
    /\ UNCHANGED <<params, lhs, other>>

NextSolinas == OpReduction

SpecSolinas == InitSolinas /\ [][NextSolinas]_vars

\* C12: reduction((a_lo, a_hi)) returns the canonical representative r,
\* r = a_lo + a_hi * b^N mod p and r < p, whenever b^N = C mod p.
C12_SolinasReductionCanonical ==
    op = "reduction" =>
        /\ Val(ret) < Modulus
        /\ Val(ret) = (Val(args[1]) + Val(args[2]) * RADIX) % Modulus

\* an input whose first fold a_h * C + a_l overflows the low half again and
\* whose folded value needs more than one subtraction of the modulus
C12_Witness ==
    /\ op = "reduction"
    /\ Val(args[2]) > 0
    /\ Val(args[1]) + Val(args[2]) * params.C >= RADIX
    /\ 2 * Modulus < RADIX
    /\ Val(ret) = (Val(args[1]) + Val(args[2]) * RADIX) % Modulus

----------------------------------------------------------------------------
(* CurveOperations: the operations a curve model supplies to the generic   *)
(* scalar multiplication code.  CyclicOperations(n) is the group law of    *)
(* the cyclic group of order n, total on all pairs of points.              *)

MaxOrder == 5

CyclicOperations(n) == [model |-> "cyclic", order |-> n]

GroupLaws == {CyclicOperations(n) : n \in 1 .. MaxOrder}

\* the points of the group
Points(C) == 0 .. (C.order - 1)

identity(C) == 0

add_in_place(C, l, r) == (l + r) % C.order

double_in_place(C, point) == (point + point) % C.order

neg_in_place(C, point) == (C.order - point) % C.order

\* Integer::into_bits_be: the bits of the scalar, most significant first
into_bits_be(scalar) == Bits_into_iter_be(scalar)

\* the numeric value of a big-endian bit sequence
RECURSIVE BitsValue(_)
BitsValue(bits) ==
    IF Len(bits) = 0 THEN 0
    ELSE 2 * BitsValue(SubSeq(bits, 1, Len(bits) - 1)) + BitOf(bits[Len(bits)])

\* k * point in the group, the reference for scalar multiplication
ScalarMultiple(C, k, point) == (k * point) % C.order

----------------------------------------------------------------------------
(* ScalarMul::montgomery_ladder *)

\* a ladder iteration that adds but leaves the other point undoubled
montgomery_ladder_step_no_double(C, bit, s) ==
    IF bit
    THEN <<add_in_place(C, s[1], s[2]), s[2]>>
    ELSE <<s[1], add_in_place(C, s[2], s[1])>>

\* one iteration of the ladder; s = <<res, base>>
montgomery_ladder_step(C, bit, s) ==
    IF bit
    THEN <<add_in_place(C, s[1], s[2]), double_in_place(C, s[2])>>
    ELSE <<double_in_place(C, s[1]), add_in_place(C, s[2], s[1])>>

montgomery_ladder(C, base, scalar) ==
    With(into_bits_be(scalar), LAMBDA bits :
        LET st[k \in 0 .. Len(bits)] ==
                IF k = 0 THEN <<identity(C), base>>
                ELSE With(st[k - 1], LAMBDA prev : montgomery_ladder_step(C, bits[k], prev))
        IN  st[Len(bits)][1])

----------------------------------------------------------------------------
(* ScalarMul::double_and_add *)

\* one iteration of double_and_add; s = <<res, base>>
double_and_add_step(C, bit, s) ==
    IF bit
    THEN <<add_in_place(C, s[1], s[2]), double_in_place(C, s[2])>>
    ELSE <<s[1], double_in_place(C, s[2])>>

double_and_add(C, base, scalar) ==
    With(into_bits_be(scalar), LAMBDA bits :
        LET st[k \in 0 .. Len(bits)] ==
                IF k = 0 THEN <<identity(C), base>>
                ELSE With(st[k - 1], LAMBDA prev : double_and_add_step(C, bits[k], prev))
        IN  st[Len(bits)][1])

----------------------------------------------------------------------------
(* Group: the default methods double and mul_int *)

\* Group::double: doubles a copy of self and returns it; self is unchanged
double(C, self) == double_in_place(C, self)

\* one iteration of mul_int; s = <<res, base>>.  `base.double();` and
\* `res.double();` compute the double of a copy and drop it
mul_int_step(C, bit, s) ==
    IF bit
    THEN With(add_in_place(C, s[1], s[2]), LAMBDA res :
         With(double(C, s[2]), LAMBDA dropped : <<res, s[2]>>))
    ELSE With(add_in_place(C, s[2], s[1]), LAMBDA base :
         With(double(C, s[1]), LAMBDA dropped : <<s[1], base>>))

mul_int(C, self, scalar) ==
    With(Bits_into_iter_be(scalar), LAMBDA bits :
        LET st[k \in 0 .. Len(bits)] ==
                IF k = 0 THEN <<identity(C), self>>
                ELSE With(st[k - 1], LAMBDA prev : mul_int_step(C, bits[k], prev))
        IN  st[Len(bits)][1])

----------------------------------------------------------------------------
(* SpecLadder: scalar multiplication of one point *)

InitLadder ==
    /\ params \in GroupLaws
    /\ lhs \in Points(params)
    /\ other = identity(params)
    /\ op = "new"
    /\ args = <<>>
    /\ ret = <<>>

\* ScalarMul::montgomery_ladder::<C>(&lhs, &scalar)
OpLadder ==
    /\ op = "new"
    /\ \E scalar \in Exponents :
          /\ ret' = montgomery_ladder(params, lhs, scalar)
          /\ args' = <<lhs, scalar>>
    /\ op' = "montgomery_ladder"
    /\ UNCHANGED <<params, lhs, other>>

\* lhs.mul_int(&scalar), and lhs.double()
OpMulInt ==
    /\ op = "new"
    /\ \E scalar \in Exponents :
          /\ ret' = <<mul_int(params, lhs, scalar), double(params, lhs)>>
          /\ args' = <<lhs, scalar>>
    /\ op' = "mul_int"
    /\ UNCHANGED <<params, lhs, other>>

\* ScalarMul::double_and_add::<C>(&lhs, &scalar) and
\* ScalarMul::montgomery_ladder::<C>(&lhs, &scalar)
OpDoubleAndAdd ==
    /\ op = "new"
    /\ \E scalar \in Exponents :
          /\ ret' = <<double_and_add(params, lhs, scalar),
                      montgomery_ladder(params, lhs, scalar)>>
          /\ args' = <<lhs, scalar>>
    /\ op' = "double_and_add"
    /\ UNCHANGED <<params, lhs, other>>

NextLadder == OpLadder \/ OpMulInt \/ OpDoubleAndAdd

SpecLadder == InitLadder /\ [][NextLadder]_vars

\* C13: over curve operations that are a group law on all pairs of points,
\* montgomery_ladder(base, k) is k * base for every scalar k, whatever the
\* number of its bits, zero and leading zero bits included.
C13_LadderIsScalarMultiple ==
    op = "montgomery_ladder" =>
        ret = ScalarMultiple(params, BitsValue(into_bits_be(args[2])), args[1])

\* a scalar with a leading zero limb and both bit values below it, on a
\* point that is not the identity
C13_Witness ==
    /\ op = "montgomery_ladder"
    /\ Len(args[2]) > 1
    /\ args[2][Len(args[2])] = 0
    /\ BitsValue(into_bits_be(args[2])) >= 2
    /\ BitsValue(into_bits_be(args[2])) % 2 = 0
    /\ args[1] # identity(params)
    /\ ret # identity(params)

\* C14: P.mul_int(k) is k * P for every point P and every scalar k; in
\* particular P.mul_int([2]) is P.double().
C14_MulIntIsScalarMultiple ==
    op = "mul_int" =>
        /\ ret[1] = ScalarMultiple(params, Val(args[2]), args[1])
        /\ Val(args[2]) = 2 => ret[1] = ret[2]

\* C25: double_and_add and montgomery_ladder return equal points for every
\* base and every scalar, and the point is scalar * base.
C25_DoubleAndAddIsLadder ==
    op = "double_and_add" =>
        /\ ret[1] = ret[2]
        /\ ret[1] = ScalarMultiple(params, BitsValue(into_bits_be(args[2])), args[1])

----------------------------------------------------------------------------
(* SpecMSM: VariableBaseMSM::msm_simple, one loop iteration per step.      *)
(* params is the curve operations C with the scalar field N, lhs is res,   *)
(* other the reference sum of the pairs consumed so far, args the lengths  *)
(* of bases and scalars and the number of pairs consumed.                  *)

MaxMsmLen == 2

MsmConfigs ==
    {[model |-> "cyclic", order |-> n, ScalarField |-> F] :
        <<n, F>> \in (1 .. MaxOrder) \X FieldParameters}

\* the integer a stored scalar stands for
ScalarValue(F, scalar) ==
    IF F.strategy = "montgomery"
    THEN CHOOSE v \in 0 .. (Val(F.MODULUS) - 1) :
             (v * RADIX) % Val(F.MODULUS) = Val(scalar)
    ELSE Val(scalar)

\* the loop body assigning the product to res in place of adding it
msm_simple_step_overwrite(C, res, base, scalar) ==
    montgomery_ladder(C, base, F_as_int(C.ScalarField, scalar))

\* the loop body with the stored limbs of the scalar in place of as_int()
msm_simple_step_stored_scalar(C, res, base, scalar) ==
    add_in_place(C, res, montgomery_ladder(C, base, scalar))

\* the loop body: res += montgomery_ladder(base, &scalar.as_int())
msm_simple_step(C, res, base, scalar) ==
    With(F_as_int(C.ScalarField, scalar), LAMBDA k :
        add_in_place(C, res, montgomery_ladder(C, base, k)))

\* msm_simple(bases, scalars) is called with bases of length args[1] and
\* scalars of length args[2]; res = C::identity()
InitMSM ==
    /\ params \in MsmConfigs
    /\ lhs = identity(params)
    /\ other = identity(params)
    /\ op = "msm_simple"
    /\ args \in (0 .. MaxMsmLen) \X (0 .. MaxMsmLen) \X {0}
    /\ ret = <<>>

\* zip yields the next pair while both iterators have an item
MsmIteration ==
    /\ op = "msm_simple"
    /\ args[3] < args[1]
    /\ args[3] < args[2]
    /\ \E base \in Points(params), scalar \in StoredElements(params.ScalarField) :
          /\ lhs' = msm_simple_step(params, lhs, base, scalar)
          /\ other' = add_in_place(params, other,
                          ScalarMultiple(params, ScalarValue(params.ScalarField, scalar), base))
    /\ args' = [args EXCEPT ![3] = @ + 1]
    /\ UNCHANGED <<params, op, ret>>

\* zip ends when either iterator is exhausted, and res is returned
MsmReturn ==
    /\ op = "msm_simple"
    /\ (args[3] = args[1] \/ args[3] = args[2])
    /\ ret' = lhs
    /\ op' = "return"
    /\ UNCHANGED <<params, lhs, other, args>>

NextMSM == MsmIteration \/ MsmReturn

SpecMSM == InitMSM /\ [][NextMSM]_vars

\* C15: for bases and scalars of equal length msm_simple returns the sum of
\* the s_i * P_i, and the identity for empty inputs.
C15_MsmIsSum ==
    (op = "return" /\ args[1] = args[2]) =>
        /\ ret = other
        /\ args[1] = 0 => ret = identity(params)

\* two pairs were consumed and their sum is not the identity
C15_Witness ==
    /\ op = "return"
    /\ args = <<2, 2, 2>>
    /\ params.ScalarField.strategy = "montgomery"
    /\ ret # identity(params)

Min(a, b) == IF a <= b THEN a ELSE b

\* C16: an msm_simple call whose bases and scalars differ in length ends in
\* an assertion failure and never returns a group element.
C16_MsmLengthMismatchPanics ==
    args[1] # args[2] => op # "return"

\* C16 as amended: the lengths are not checked; a call whose bases and
\* scalars differ in length returns the sum of the s_i * P_i over the
\* pairs up to the shorter length.
C16_MsmTruncatesToShorter ==
    (op = "return" /\ args[1] # args[2]) =>
        /\ args[3] = Min(args[1], args[2])
        /\ ret = other

\* two bases and one scalar: one pair is consumed and its product returned
C16_Witness ==
    /\ op = "return"
    /\ args = <<2, 1, 1>>
    /\ params.ScalarField.strategy = "montgomery"
    /\ ret # identity(params)

----------------------------------------------------------------------------
(* Elliptic curve points over Fp = F<GeneralReductionOperations<N,         *)
(* SolinasReduction<N, P>>>, the field of the curves of the repository     *)
(* (Fp25519).  A coordinate is the stored value of a field element.        *)

MaxCurveModulus == 13

\* the Solinas fields of odd prime modulus up to MaxCurveModulus; the
\* modulus may be a divisor of b^N - C, as 2^255 - 19 is of 2^256 - 38
CurveFields ==
    {F \in SolinasDivisorParameters :
        /\ IsPrime(Val(F.MODULUS))
        /\ Val(F.MODULUS) > 2
        /\ Val(F.MODULUS) <= MaxCurveModulus}

\* impl Field for F<S>: the parameters P of the strategy S and its operations
\* on the stored elements, as functions
Fp(F) ==
    [P |-> F,
     zero |-> zero(F),
     one |-> one(F),
     add |-> [l \in StoredElements(F) |-> [o \in StoredElements(F) |-> F_add(F, l, o)]],
     sub |-> [l \in StoredElements(F) |-> [o \in StoredElements(F) |-> F_sub(F, l, o)]],
     mul |-> [l \in StoredElements(F) |-> [o \in StoredElements(F) |-> mul_assign(F, l, o)]],
     eq |-> [l \in StoredElements(F) |-> [o \in StoredElements(F) |-> F_eq(F, l, o)]],
     neg |-> [x \in StoredElements(F) |-> F_neg(F, x)],
     double |-> [x \in StoredElements(F) |-> F_double(F, x)],
     inverse |-> [x \in StoredElements(F) |-> inverse(F, x)],
     exp_3 |-> [x \in StoredElements(F) |-> exp(F, x, <<3>>)]]

\* the operations of the curve fields, evaluated once (the equality
\* tabulates the functions)
Fp_table == CHOOSE f \in {[F \in CurveFields |-> Fp(F)]} : f = f

\* Add for F<S>
Fp_add(K, l, o) == K.add[l][o]

\* Sub for F<S>
Fp_sub(K, l, o) == K.sub[l][o]

\* Mul for F<S>
Fp_mul(K, l, o) == K.mul[l][o]

\* PartialEq for F<S>
Fp_eq(K, l, o) == K.eq[l][o]

\* Neg for F<S>
Fp_neg(K, x) == K.neg[x]

\* Field::double
Fp_double(K, x) == K.double[x]

\* Field::square
Fp_square(K, x) == K.mul[x][x]

\* Field::exp with the exponent 3
Fp_exp_3(K, x) == K.exp_3[x]

\* Div for F<S>: inverse(other).expect("Division by zero"), then mul
Fp_div(K, l, o) ==
    IF K.inverse[o] = None THEN Panic ELSE K.mul[l][K.inverse[o][1]]

\* ExtendedPoint<F>
ExtendedPoint(X, Y, T, Z) == [X |-> X, Y |-> Y, T |-> T, Z |-> Z]

\* Affine<F>
Affine(x, y) == [x |-> x, y |-> y]

\* PartialEq for ExtendedPoint: cross-multiplication
ExtendedPoint_eq(K, self, o) ==
    /\ Fp_eq(K, Fp_mul(K, self.X, o.Z), Fp_mul(K, o.X, self.Z))
    /\ Fp_eq(K, Fp_mul(K, self.Y, o.Z), Fp_mul(K, o.Y, self.Z))

\* From<Affine<F>> for ExtendedPoint<F>
ExtendedPoint_from(K, affine) ==
    ExtendedPoint(affine.x, affine.y, Fp_mul(K, affine.x, affine.y), K.one)

----------------------------------------------------------------------------
(* EdwardsAM1UnifiedOperations<P>: E = [Field |-> the operations of        *)
(* P::Field, D |-> the stored constant P::D]                               *)

Edwards_identity(E) ==
    ExtendedPoint(E.Field.zero, E.Field.one, E.Field.zero, E.Field.one)

Edwards_neg_in_place(E, point) ==
    [point EXCEPT !.X = Fp_neg(E.Field, @), !.T = Fp_neg(E.Field, @)]

\* the addition with C = D * T1 * T2 in place of 2 * D * T1 * T2
Edwards_add_in_place_single_d(E, p1, p2) ==
    With(Fp_mul(E.Field, Fp_sub(E.Field, p1.Y, p1.X), Fp_sub(E.Field, p2.Y, p2.X)), LAMBDA A :
    With(Fp_mul(E.Field, Fp_add(E.Field, p1.Y, p1.X), Fp_add(E.Field, p2.Y, p2.X)), LAMBDA B :
    With(Fp_mul(E.Field, Fp_mul(E.Field, E.D, p1.T), p2.T), LAMBDA C :
    With(Fp_mul(E.Field, Fp_double(E.Field, p1.Z), p2.Z), LAMBDA D :
    With(Fp_sub(E.Field, B, A), LAMBDA EE :
    With(Fp_sub(E.Field, D, C), LAMBDA FF :
    With(Fp_add(E.Field, D, C), LAMBDA G :
    With(Fp_add(E.Field, B, A), LAMBDA H :
        ExtendedPoint(Fp_mul(E.Field, EE, FF), Fp_mul(E.Field, G, H),
                      Fp_mul(E.Field, EE, H), Fp_mul(E.Field, FF, G))))))))))

\* the unified addition of Hisil-Wong-Carter-Dawson, section 3.1
Edwards_add_in_place(E, p1, p2) ==
    With(Fp_mul(E.Field, Fp_sub(E.Field, p1.Y, p1.X), Fp_sub(E.Field, p2.Y, p2.X)), LAMBDA A :
    With(Fp_mul(E.Field, Fp_add(E.Field, p1.Y, p1.X), Fp_add(E.Field, p2.Y, p2.X)), LAMBDA B :
    With(Fp_mul(E.Field, Fp_mul(E.Field, Fp_double(E.Field, E.D), p1.T), p2.T), LAMBDA C :
    With(Fp_mul(E.Field, Fp_double(E.Field, p1.Z), p2.Z), LAMBDA D :
    With(Fp_sub(E.Field, B, A), LAMBDA EE :
    With(Fp_sub(E.Field, D, C), LAMBDA FF :
    With(Fp_add(E.Field, D, C), LAMBDA G :
    With(Fp_add(E.Field, B, A), LAMBDA H :
        ExtendedPoint(Fp_mul(E.Field, EE, FF), Fp_mul(E.Field, G, H),
                      Fp_mul(E.Field, EE, H), Fp_mul(E.Field, FF, G))))))))))

\* the mixed addition with lhs.T = E * G in place of E * H
Edwards_add_affine_in_place_T_of_G(E, p1, rhs) ==
    With(Fp_mul(E.Field, rhs.x, rhs.y), LAMBDA T2 :
    With(Fp_mul(E.Field, Fp_sub(E.Field, p1.Y, p1.X), Fp_sub(E.Field, rhs.y, rhs.x)), LAMBDA A :
    With(Fp_mul(E.Field, Fp_add(E.Field, p1.Y, p1.X), Fp_add(E.Field, rhs.y, rhs.x)), LAMBDA B :
    With(Fp_mul(E.Field, Fp_mul(E.Field, p1.T, Fp_double(E.Field, E.D)), T2), LAMBDA C :
    With(Fp_double(E.Field, p1.Z), LAMBDA D :
    With(Fp_sub(E.Field, B, A), LAMBDA EE :
    With(Fp_sub(E.Field, D, C), LAMBDA FF :
    With(Fp_add(E.Field, D, C), LAMBDA G :
    With(Fp_add(E.Field, B, A), LAMBDA H :
        ExtendedPoint(Fp_mul(E.Field, EE, FF), Fp_mul(E.Field, G, H),
                      Fp_mul(E.Field, EE, G), Fp_mul(E.Field, FF, G)))))))))))

\* the addition of a point given in affine coordinates (Z2 = 1)
Edwards_add_affine_in_place(E, p1, rhs) ==
    With(Fp_mul(E.Field, rhs.x, rhs.y), LAMBDA T2 :
    With(Fp_mul(E.Field, Fp_sub(E.Field, p1.Y, p1.X), Fp_sub(E.Field, rhs.y, rhs.x)), LAMBDA A :
    With(Fp_mul(E.Field, Fp_add(E.Field, p1.Y, p1.X), Fp_add(E.Field, rhs.y, rhs.x)), LAMBDA B :
    With(Fp_mul(E.Field, Fp_mul(E.Field, p1.T, Fp_double(E.Field, E.D)), T2), LAMBDA C :
    With(Fp_double(E.Field, p1.Z), LAMBDA D :
    With(Fp_sub(E.Field, B, A), LAMBDA EE :
    With(Fp_sub(E.Field, D, C), LAMBDA FF :
    With(Fp_add(E.Field, D, C), LAMBDA G :
    With(Fp_add(E.Field, B, A), LAMBDA H :
        ExtendedPoint(Fp_mul(E.Field, EE, FF), Fp_mul(E.Field, G, H),
                      Fp_mul(E.Field, EE, H), Fp_mul(E.Field, FF, G)))))))))))

\* the point is added to a copy of itself
Edwards_double_in_place(E, point) == Edwards_add_in_place(E, point, point)

\* Add for GroupEC<P>
GroupEC_add(E, self, o) == Edwards_add_in_place(E, self, o)

\* Neg for GroupEC<P>
GroupEC_neg(E, self) == Edwards_neg_in_place(E, self)

\* SubAssign for GroupEC<P>: negate, add, negate
GroupEC_sub(E, self, o) ==
    Edwards_neg_in_place(E,
        Edwards_add_in_place(E, Edwards_neg_in_place(E, self), o))

\* Group::double for GroupEC<P>
GroupEC_double(E, self) == Edwards_double_in_place(E, self)

\* PartialEq for GroupEC<P>
GroupEC_eq(E, self, o) == ExtendedPoint_eq(E.Field, self, o)

----------------------------------------------------------------------------
(* The twisted Edwards curves -x^2 + y^2 = 1 + d x^2 y^2 over the curve    *)
(* fields, their points of odd order, and the group operations of          *)
(* GroupEC<P> applied once to points given in extended coordinates.        *)

\* TwistedEdwardsAM1: the field with its operations and the stored constant
\* D, with d not in {0, a}
EdwardsCurves ==
    UNION {{[Field |-> K, D |-> LimbsOf(d)] : d \in 1 .. (Val(K.P.MODULUS) - 2)} :
              K \in {Fp_table[F] : F \in CurveFields}}

\* the curve equation -x2 + y2 = 1 + dx2y2 on the integers x, y modulo p
OnCurve(p, d, x, y) ==
    (y * y) % p = (x * x + 1 + d * x * x * y * y) % p

AffinePoints(p, d) ==
    {xy \in (0 .. (p - 1)) \X (0 .. (p - 1)) : OnCurve(p, d, xy[1], xy[2])}

InvMod(p, v) == CHOOSE w \in 1 .. (p - 1) : (v * w) % p = 1

\* the affine addition law of the curve; None where a denominator is zero
AffineSum(p, d, P, Q) ==
    With((d * P[1] * Q[1] * P[2] * Q[2]) % p, LAMBDA t :
        IF (1 + t) % p = 0 \/ (1 + p - t) % p = 0
        THEN None
        ELSE <<((P[1] * Q[2] + P[2] * Q[1]) * InvMod(p, (1 + t) % p)) % p,
               ((P[2] * Q[2] + P[1] * Q[1]) * InvMod(p, (1 + p - t) % p)) % p>>)

RECURSIVE OrderFrom(_, _, _, _, _)
\* the order of P, given Q = k * P; 0 if the affine law does not reach 0 * P
OrderFrom(p, d, P, Q, k) ==
    IF Q = <<0, 1>> THEN k
    ELSE IF k > 2 * p + 2 THEN 0
    ELSE With(AffineSum(p, d, P, Q), LAMBDA S :
             IF S = None THEN 0 ELSE OrderFrom(p, d, P, S, k + 1))

\* the points of odd order (for Ed25519: the subgroup of prime order)
OddOrderPoints(p, d) ==
    {P \in AffinePoints(p, d) : OrderFrom(p, d, P, P, 1) % 2 = 1}

\* the extended coordinates (xz : yz : xyz : z) of the points of odd order
ExtendedPoints(E) ==
    With(Val(E.Field.P.MODULUS), LAMBDA p :
        {ExtendedPoint(LimbsOf((Pz[1][1] * Pz[2]) % p),
                       LimbsOf((Pz[1][2] * Pz[2]) % p),
                       LimbsOf((Pz[1][1] * Pz[1][2] * Pz[2]) % p),
                       LimbsOf(Pz[2])) :
            Pz \in OddOrderPoints(p, Val(E.D)) \X (1 .. (p - 1))})

\* the affine point (x, y) = (X/Z, Y/Z) as integers, for Z # 0
AffineValue(E, point) ==
    With(Val(E.Field.P.MODULUS), LAMBDA p :
        With(InvMod(p, Val(point.Z)), LAMBDA w :
            <<(Val(point.X) * w) % p, (Val(point.Y) * w) % p>>))

\* a curve and two representatives of points of odd order
InitEdwards ==
    /\ \E c \in {[curve |-> E, points |-> ExtendedPoints(E)] : E \in EdwardsCurves} :
          /\ params = c.curve
          /\ lhs \in c.points
          /\ other \in c.points
    /\ op = "new"
    /\ args = <<>>
    /\ ret = <<>>

\* P + Q and Q + P
OpGroupAdd ==
    /\ op = "new"
    /\ ret' = <<GroupEC_add(params, lhs, other), GroupEC_add(params, other, lhs)>>
    /\ op' = "add"
    /\ UNCHANGED <<params, lhs, other, args>>

\* P + P and P.double()
OpGroupDouble ==
    /\ op = "new"
    /\ ret' = <<GroupEC_add(params, lhs, lhs), GroupEC_double(params, lhs)>>
    /\ op' = "double"
    /\ UNCHANGED <<params, lhs, other, args>>

\* P + identity and identity + P
OpGroupAddIdentity ==
    /\ op = "new"
    /\ ret' = <<GroupEC_add(params, lhs, Edwards_identity(params)),
                GroupEC_add(params, Edwards_identity(params), lhs)>>
    /\ op' = "add_identity"
    /\ UNCHANGED <<params, lhs, other, args>>

\* P + (-P) and P - P
OpGroupSub ==
    /\ op = "new"
    /\ ret' = <<GroupEC_add(params, lhs, GroupEC_neg(params, lhs)),
                GroupEC_sub(params, lhs, lhs)>>
    /\ op' = "sub"
    /\ UNCHANGED <<params, lhs, other, args>>

NextEdwards == OpGroupAdd \/ OpGroupDouble \/ OpGroupAddIdentity \/ OpGroupSub

SpecEdwards == InitEdwards /\ [][NextEdwards]_vars

\* C17: on the points of odd order of a curve -x^2 + y^2 = 1 + d x^2 y^2 the
\* operations of EdwardsAM1UnifiedOperations satisfy, up to the projective
\* equality of points, P + Q == Q + P, P + P == P.double(),
\* P + identity == P == identity + P, P + (-P) == identity and
\* P - P == identity.
C17_EdwardsGroupLaw ==
    /\ op = "add" => GroupEC_eq(params, ret[1], ret[2])
    /\ op = "double" => GroupEC_eq(params, ret[1], ret[2])
    /\ op = "add_identity" =>
          /\ GroupEC_eq(params, ret[1], lhs)
          /\ GroupEC_eq(params, lhs, ret[2])
    /\ op = "sub" =>
          /\ GroupEC_eq(params, ret[1], Edwards_identity(params))
          /\ GroupEC_eq(params, ret[2], Edwards_identity(params))

\* two different points other than the identity, neither in affine form, are
\* added and the sum is a proper point: the sum of the affine addition law
C17_Witness ==
    /\ op = "add"
    /\ AffineValue(params, lhs) # <<0, 1>>
    /\ AffineValue(params, other) # <<0, 1>>
    /\ AffineValue(params, lhs) # AffineValue(params, other)
    /\ lhs.Z # params.Field.one
    /\ other.Z # params.Field.one
    /\ ret[1].Z # params.Field.zero
    /\ AffineValue(params, ret[1]) =
          AffineSum(Val(params.Field.P.MODULUS), Val(params.D),
                    AffineValue(params, lhs), AffineValue(params, other))

----------------------------------------------------------------------------
(* Coordinates: Projective, ExtendedPoint and JacobianPoint over the curve *)
(* fields, their equality, into_affine and From<Affine>; K is the record   *)
(* of the operations of the field.                                         *)

\* Projective<F>
Projective(X, Y, Z) == [X |-> X, Y |-> Y, Z |-> Z]

\* JacobianPoint<F>
JacobianPoint(X, Y, Z) == [X |-> X, Y |-> Y, Z |-> Z]

\* PartialEq for Projective: cross-multiplication
Projective_eq(K, self, o) ==
    /\ Fp_eq(K, Fp_mul(K, self.X, o.Z), Fp_mul(K, o.X, self.Z))
    /\ Fp_eq(K, Fp_mul(K, self.Y, o.Z), Fp_mul(K, o.Y, self.Z))

\* the comparison of the coordinates one by one
JacobianPoint_eq_coordinates(K, self, o) ==
    /\ Fp_eq(K, self.X, o.X)
    /\ Fp_eq(K, self.Y, o.Y)
    /\ Fp_eq(K, self.Z, o.Z)

\* PartialEq for JacobianPoint: X with Z^2, Y with Z^3
JacobianPoint_eq(K, self, o) ==
    /\ Fp_eq(K, Fp_mul(K, self.X, Fp_square(K, o.Z)),
                Fp_mul(K, o.X, Fp_square(K, self.Z)))
    /\ Fp_eq(K, Fp_mul(K, self.Y, Fp_exp_3(K, o.Z)),
                Fp_mul(K, o.Y, Fp_exp_3(K, self.Z)))

\* Some(Affine {x, y}) as the pair <<"some", affine>>, or the panic of a division
SomeAffine(x, y) ==
    IF x = Panic \/ y = Panic THEN Panic ELSE <<"some", Affine(x, y)>>

\* Projective::into_affine
Projective_into_affine(K, self) ==
    IF Fp_eq(K, self.Z, K.zero) THEN None
    ELSE SomeAffine(Fp_div(K, self.X, self.Z), Fp_div(K, self.Y, self.Z))

\* into_affine without the test of Z
ExtendedPoint_into_affine_unchecked(K, self) ==
    SomeAffine(Fp_div(K, self.X, self.Z), Fp_div(K, self.Y, self.Z))

\* ExtendedPoint::into_affine
ExtendedPoint_into_affine(K, self) ==
    IF Fp_eq(K, self.Z, K.zero) THEN None
    ELSE SomeAffine(Fp_div(K, self.X, self.Z), Fp_div(K, self.Y, self.Z))

\* JacobianPoint::into_affine
JacobianPoint_into_affine(K, self) ==
    IF Fp_eq(K, self.Z, K.zero) THEN None
    ELSE SomeAffine(Fp_div(K, self.X, Fp_square(K, self.Z)),
                    Fp_div(K, self.Y, Fp_exp_3(K, self.Z)))

\* PrimeGroupConfig::as_public
as_public(K, input) == ExtendedPoint_into_affine(K, input)

\* From<Affine<F>> for Projective<F>
Projective_from(K, affine) == Projective(affine.x, affine.y, K.one)

\* From<Affine<F>> for JacobianPoint<F>
JacobianPoint_from(K, affine) == JacobianPoint(affine.x, affine.y, K.one)

----------------------------------------------------------------------------
(* Two points given by their coordinates (X, Y, Z), read in each of the    *)
(* three representations, are compared and converted once; params is the   *)
(* field with its operations.                                              *)

MaxCoordinate == 1

\* the stored coordinates within MaxCoordinate of zero, from either side
CoordinateValues(F) ==
    {LimbsOf(v) : v \in {w \in 0 .. (Val(F.MODULUS) - 1) :
                            w <= MaxCoordinate \/ w >= Val(F.MODULUS) - MaxCoordinate}}

CoordinateTriples(F) ==
    {Projective(c[1], c[2], c[3]) :
        c \in CoordinateValues(F) \X CoordinateValues(F) \X CoordinateValues(F)}

\* the extended point of the coordinates, with T * Z = X * Y
ToExtended(K, c) ==
    ExtendedPoint(c.X, c.Y,
                  IF c.Z = K.zero THEN K.zero
                  ELSE Fp_div(K, Fp_mul(K, c.X, c.Y), c.Z),
                  c.Z)

\* the representative (kX : kY : kZ) of a projective point
ScaleProjective(K, c, k) ==
    Projective(Fp_mul(K, k, c.X), Fp_mul(K, k, c.Y), Fp_mul(K, k, c.Z))

\* the representative (kX : kY : kT : kZ) of an extended point
ScaleExtended(K, c, k) ==
    ExtendedPoint(Fp_mul(K, k, c.X), Fp_mul(K, k, c.Y),
                  Fp_mul(K, k, c.T), Fp_mul(K, k, c.Z))

\* the representative (k^2 X : k^3 Y : k Z) of a Jacobian point
ScaleJacobian(K, c, k) ==
    JacobianPoint(Fp_mul(K, Fp_mul(K, k, k), c.X),
                  Fp_mul(K, Fp_mul(K, Fp_mul(K, k, k), k), c.Y),
                  Fp_mul(K, k, c.Z))

\* the affine point (X/Z, Y/Z) as integers, for Z # 0
ProjectiveValue(F, c) ==
    With(Val(F.MODULUS), LAMBDA p :
        With(InvMod(p, Val(c.Z)), LAMBDA w :
            <<(Val(c.X) * w) % p, (Val(c.Y) * w) % p>>))

\* the affine point (X/Z^2, Y/Z^3) as integers, for Z # 0
JacobianValue(F, c) ==
    With(Val(F.MODULUS), LAMBDA p :
        With(InvMod(p, Val(c.Z)), LAMBDA w :
            <<(Val(c.X) * w * w) % p, (Val(c.Y) * w * w * w) % p>>))

InitCoordinates ==
    /\ \E K \in {Fp_table[F] : F \in CurveFields} :
          /\ params = K
          /\ lhs \in CoordinateTriples(K.P)
          /\ other \in CoordinateTriples(K.P)
    /\ op = "new"
    /\ args = <<>>
    /\ ret = <<>>

\* lhs == other as Projective, as ExtendedPoint and as JacobianPoint
OpEq ==
    /\ op = "new"
    /\ ret' = <<Projective_eq(params, lhs, other),
                ExtendedPoint_eq(params, ToExtended(params, lhs),
                                 ToExtended(params, other)),
                JacobianPoint_eq(params, lhs, other)>>
    /\ op' = "eq"
    /\ UNCHANGED <<params, lhs, other, args>>

\* the same comparisons with lhs replaced by its representative scaled by k
OpEqScaled ==
    /\ op = "new"
    /\ \E k \in CoordinateValues(params.P) \ {params.zero} :
          /\ args' = <<k>>
          /\ ret' = <<Projective_eq(params, ScaleProjective(params, lhs, k), other),
                      ExtendedPoint_eq(params,
                          ScaleExtended(params, ToExtended(params, lhs), k),
                          ToExtended(params, other)),
                      JacobianPoint_eq(params, ScaleJacobian(params, lhs, k), other)>>
    /\ op' = "eq_scaled"
    /\ UNCHANGED <<params, lhs, other>>

\* lhs.into_affine() in the three representations, and as_public
OpIntoAffine ==
    /\ op = "new"
    /\ ret' = <<Projective_into_affine(params, lhs),
                ExtendedPoint_into_affine(params, ToExtended(params, lhs)),
                JacobianPoint_into_affine(params, lhs),
                as_public(params, ToExtended(params, lhs))>>
    /\ op' = "into_affine"
    /\ UNCHANGED <<params, lhs, other, args>>

\* Point::from(a).into_affine() for the affine point a = (lhs.X, lhs.Y)
OpFromAffine ==
    /\ op = "new"
    /\ \E a \in {Affine(lhs.X, lhs.Y)} :
          /\ args' = <<a>>
          /\ ret' = <<Projective_into_affine(params, Projective_from(params, a)),
                      ExtendedPoint_into_affine(params, ExtendedPoint_from(params, a)),
                      JacobianPoint_into_affine(params, JacobianPoint_from(params, a))>>
    /\ op' = "from_affine"
    /\ UNCHANGED <<params, lhs, other>>

NextCoordinates == OpEq \/ OpEqScaled \/ OpIntoAffine \/ OpFromAffine

SpecCoordinates == InitCoordinates /\ [][NextCoordinates]_vars

C19_IntoAffineTotal ==
    /\ op = "into_affine" =>
          /\ \A i \in 1 .. 4 :
                /\ ret[i] # Panic
                /\ (ret[i] = None) <=> (lhs.Z = params.zero)
          /\ lhs.Z # params.zero =>
                /\ \A i \in {1, 2, 4} :
                      <<Val(ret[i][2].x), Val(ret[i][2].y)>> = ProjectiveValue(params.P, lhs)
                /\ <<Val(ret[3][2].x), Val(ret[3][2].y)>> = JacobianValue(params.P, lhs)
    /\ op = "from_affine" =>
          \A i \in 1 .. 3 : ret[i] = <<"some", args[1]>>

\* a point with Z = 0 has been converted, giving None without a panic
C19_Witness ==
    /\ op = "into_affine"
    /\ lhs.Z = params.zero
    /\ lhs.X # params.zero
    /\ ret = <<None, None, None, None>>

----------------------------------------------------------------------------
(* rand: limbs are drawn from the generator until the rejection test       *)
(* passes; args counts the rejected draws, lhs is the last draw.           *)

MaxDraws == 2

\* the rejection test of the loop: element.le(&P::MODULUS.into())
rand_accepts(P, element) == le(element, P.MODULUS)

\* the value returned after the loop: Self::reduce(&res.into()) in
\* MontgomeryOperations, res.into() in GeneralReductionOperations
rand_return(P, res) ==
    IF P.strategy = "montgomery" THEN Montgomery_reduce(P, res) ELSE res

InitRand ==
    /\ params \in AllParameters
    /\ lhs = LimbInt_zero
    /\ other = LimbInt_zero
    /\ op = "new"
    /\ args = <<0>>
    /\ ret = <<>>

\* a draw that the test rejects: the loop goes on
RandReject ==
    /\ op \in {"new", "rand_loop"}
    /\ args[1] < MaxDraws
    /\ \E res \in LimbInts :
          /\ ~rand_accepts(params, res)
          /\ lhs' = res
    /\ args' = <<args[1] + 1>>
    /\ op' = "rand_loop"
    /\ UNCHANGED <<params, other, ret>>

\* a draw that the test accepts: the loop breaks and rand returns
RandAccept ==
    /\ op \in {"new", "rand_loop"}
    /\ \E res \in LimbInts :
          /\ rand_accepts(params, res)
          /\ lhs' = res
          /\ ret' = rand_return(params, res)
    /\ op' = "rand"
    /\ UNCHANGED <<params, other, args>>

NextRand == RandReject \/ RandAccept

SpecRand == InitRand /\ [][NextRand]_vars

\* C20: every element returned by rand of GeneralReductionOperations and of
\* MontgomeryOperations is stored as a value strictly below MODULUS, whatever
\* limbs the generator yields.
C20_RandBelowModulus ==
    op = "rand" => Val(ret) < Val(params.MODULUS)

----------------------------------------------------------------------------
(* Comparisons of LimbInt: le as its loop over the limbs, le_non_ct and    *)
(* le_double; args = <<limb pairs examined, <<res, flag>>>> during le.     *)

RECURSIVE le_non_ct_from(_, _, _)
\* LimbInt::le_non_ct from limb i down: returns at the first differing limb
le_non_ct_from(self, o, i) ==
    IF i = 0 THEN TRUE
    ELSE IF self[i] # o[i] THEN self[i] <= o[i]
    ELSE le_non_ct_from(self, o, i - 1)

le_non_ct(self, o) == le_non_ct_from(self, o, N)

\* LimbInt::le_double on pairs <<low, high>>: high || (equal && low)
le_double(element, o) ==
    \E high \in {le(element[2], o[2])} :
    \E low \in {le(element[1], o[1])} :
    \E equal \in {element[2] = o[2]} :
        high \/ (equal /\ low)

MaxHigh == 1

\* the high halves of the double-width operands of le_double
HighHalves == {h \in LimbInts : Val(h) <= MaxHigh}

InitCompare ==
    /\ params = NoParams
    /\ lhs \in LimbInts
    /\ other \in LimbInts
    /\ op = "new"
    /\ args = <<0, <<TRUE, TRUE>>>>
    /\ ret = <<>>

\* one iteration of the loop of le, on the limbs N, N - 1, ..., 1
LeIteration ==
    /\ op \in {"new", "le"}
    /\ args[1] < N
    /\ args' = <<args[1] + 1, le_step(lhs, other, N - args[1], args[2])>>
    /\ op' = "le"
    /\ UNCHANGED <<params, lhs, other, ret>>

\* the loop of le is over: res is returned, next to le_non_ct of the operands
LeReturn ==
    /\ op = "le"
    /\ args[1] = N
    /\ ret' = <<args[2][1], le_non_ct(lhs, other)>>
    /\ op' = "return"
    /\ UNCHANGED <<params, lhs, other, args>>

\* le_double((lhs, h1), (other, h2))
OpLeDouble ==
    /\ op = "new"
    /\ \E h \in HighHalves \X HighHalves :
          /\ args' = <<h[1], h[2]>>
          /\ ret' = le_double(<<lhs, h[1]>>, <<other, h[2]>>)
    /\ op' = "le_double"
    /\ UNCHANGED <<params, lhs, other>>

NextCompare == LeIteration \/ LeReturn \/ OpLeDouble

SpecCompare == InitCompare /\ [][NextCompare]_vars

\* C21: le(a, b) is true iff the value of a is at most the value of b, it
\* agrees with le_non_ct(a, b), and its loop has examined all N limb pairs
\* when it returns.
C21_LeIsLessOrEqual ==
    op = "return" =>
        /\ ret[1] = (Val(lhs) <= Val(other))
        /\ ret[1] = ret[2]
        /\ args[1] = N

\* the top limbs differ and the lower limbs are ordered the other way: the
\* loop went on to the last limb and returned the verdict of the top limb
C21_Witness ==
    /\ op = "return"
    /\ lhs[N] < other[N]
    /\ lhs[1] > other[1]
    /\ args[1] = N
    /\ ret = <<TRUE, TRUE>>

\* C29: le_double((lo1, hi1), (lo2, hi2)) is true iff
\* lo1 + hi1 * b^N <= lo2 + hi2 * b^N, also when the high halves are equal.
C29_LeDoubleIsLexicographic ==
    op = "le_double" =>
        ret = (Val(lhs) + Val(args[1]) * RADIX <= Val(other) + Val(args[2]) * RADIX)

----------------------------------------------------------------------------
(* SpecLadderLoop: the loops of PrimeFieldOperations::exp and of           *)
(* ScalarMul::montgomery_ladder, one iteration per step.  lhs is the       *)
(* element x (the point P), other the exponent (scalar) as limbs, args =   *)
(* <<bits consumed, res, base>>, ret the operations executed so far, each  *)
(* as <<kind, target register>>.                                           *)

MaxLadderLimbs == 1

LadderScalars == UNION {[1 .. n -> Limbs] : n \in 1 .. MaxLadderLimbs}

MaxLadderModulus == 13

\* the prime fields, of either strategy, exp is run on
LadderFields == {P \in FieldParameters : Val(P.MODULUS) <= MaxLadderModulus}

\* the operations one iteration of exp executes, in order
exp_operations(bit) ==
    IF bit
    THEN <<<<"mul_assign", "res">>, <<"square_assign", "base">>>>
    ELSE <<<<"mul_assign", "base">>, <<"square_assign", "res">>>>

\* an iteration that skips the addition on a zero bit, as double_and_add does
montgomery_ladder_operations_skip(bit) ==
    IF bit
    THEN <<<<"add_in_place", "res">>, <<"double_in_place", "base">>>>
    ELSE <<<<"double_in_place", "base">>>>

\* the operations one iteration of montgomery_ladder executes, in order
montgomery_ladder_operations(bit) ==
    IF bit
    THEN <<<<"add_in_place", "res">>, <<"double_in_place", "base">>>>
    ELSE <<<<"add_in_place", "base">>, <<"double_in_place", "res">>>>

\* let mut res = Self::one(); let mut base = *element;  and
\* let mut res = C::identity(); let mut base = *base;
InitLadderLoop ==
    /\ \/ /\ params \in LadderFields
          /\ lhs \in StoredElements(params)
          /\ op = "exp"
          /\ args = <<0, one(params), lhs>>
       \/ /\ params \in GroupLaws
          /\ lhs \in Points(params)
          /\ op = "montgomery_ladder"
          /\ args = <<0, identity(params), lhs>>
    /\ other \in LadderScalars
    /\ ret = <<>>

\* the body of `for bit in bits` in exp
ExpIteration ==
    /\ op = "exp"
    /\ args[1] < Len(Bits_into_iter_be(other))
    /\ \E bit \in {Bits_into_iter_be(other)[args[1] + 1]} :
          /\ \E s \in {exp_step(params, bit, <<args[2], args[3]>>)} :
                args' = <<args[1] + 1, s[1], s[2]>>
          /\ ret' = ret \o exp_operations(bit)
    /\ UNCHANGED <<params, lhs, other, op>>

\* the iterator is exhausted and res is returned
ExpReturn ==
    /\ op = "exp"
    /\ args[1] = Len(Bits_into_iter_be(other))
    /\ op' = "exp_return"
    /\ UNCHANGED <<params, lhs, other, args, ret>>

\* the body of `for &bit in scalar.into_bits_be()` in montgomery_ladder
LadderIteration ==
    /\ op = "montgomery_ladder"
    /\ args[1] < Len(into_bits_be(other))
    /\ \E bit \in {into_bits_be(other)[args[1] + 1]} :
          /\ \E s \in {montgomery_ladder_step(params, bit, <<args[2], args[3]>>)} :
                args' = <<args[1] + 1, s[1], s[2]>>
          /\ ret' = ret \o montgomery_ladder_operations(bit)
    /\ UNCHANGED <<params, lhs, other, op>>

LadderReturn ==
    /\ op = "montgomery_ladder"
    /\ args[1] = Len(into_bits_be(other))
    /\ op' = "montgomery_ladder_return"
    /\ UNCHANGED <<params, lhs, other, args, ret>>

NextLadderLoop == ExpIteration \/ ExpReturn \/ LadderIteration \/ LadderReturn

SpecLadderLoop == InitLadderLoop /\ [][NextLadderLoop]_vars

\* the kinds of operation of i iterations: one multiply (addition), then
\* one square (doubling), per bit
LadderKinds(mul, square, i) == [j \in 1 .. (2 * i) |-> IF j % 2 = 1 THEN mul ELSE square]

\* C22: after i bits the operations executed are exactly one multiply
\* (addition) followed by one square (doubling) per bit, whatever the values
\* of the bits, so two exponents of the same bit length give the same
\* number and the same ordered kinds; the bit only selects the targets:
\* multiply into res and square base on a one, the reverse on a zero; the
\* call returns after as many iterations as the exponent has bits.
C22_LadderBitIndependent ==
    /\ Len(ret) = 2 * args[1]
    /\ [j \in 1 .. Len(ret) |-> ret[j][1]]
          = (IF op \in {"exp", "exp_return"}
             THEN LadderKinds("mul_assign", "square_assign", args[1])
             ELSE LadderKinds("add_in_place", "double_in_place", args[1]))
    /\ \A i \in 1 .. args[1] :
          /\ ret[2 * i - 1][2] = (IF Bits_into_iter_be(other)[i] THEN "res" ELSE "base")
          /\ ret[2 * i][2] = (IF Bits_into_iter_be(other)[i] THEN "base" ELSE "res")
    /\ op \in {"exp_return", "montgomery_ladder_return"}
          => args[1] = Len(other) * LimbBits

\* a ladder that has returned after a one bit and a zero bit
C22_Witness ==
    /\ op = "montgomery_ladder_return"
    /\ \E i, j \in 1 .. args[1] : ret[2 * i - 1][2] = "res" /\ ret[2 * j - 1][2] = "base"

\* the stored value b represents the product of the elements stored as r
\* and s
IsProduct(P, b, r, s) ==
    /\ Val(b) < Val(P.MODULUS)
    /\ (Val(b) * StoredScale(P)) % Val(P.MODULUS) = (Val(r) * Val(s)) % Val(P.MODULUS)

\* the value of the bits consumed so far
ConsumedValue == BitsValue(SubSeq(Bits_into_iter_be(other), 1, args[1]))

\* C26: at the start and after every iteration of montgomery_ladder,
\* res = k * P and base = res + P for the value k of the bits consumed so
\* far; in exp, res = x^k and base = res * x.
C26_LadderLoopInvariant ==
    /\ op \in {"montgomery_ladder", "montgomery_ladder_return"} =>
          /\ args[2] = ScalarMultiple(params, ConsumedValue, lhs)
          /\ args[3] = add_in_place(params, args[2], lhs)
    /\ op \in {"exp", "exp_return"} =>
          /\ IsPower(params, args[2], lhs, ConsumedValue)
          /\ IsProduct(params, args[3], args[2], lhs)

----------------------------------------------------------------------------
(* ShortWeierstrassOperations<P>: W = [Field |-> the operations of         *)
(* P::Field, A |-> the stored constant P::A, B |-> the stored constant     *)
(* P::B]; the points are JacobianPoint<P::Field>                           *)

Weierstrass_add_in_place(W, p1, p2) ==
    With(W.Field, LAMBDA K :
    With(Fp_square(K, p1.Z), LAMBDA Z1Z1 :
    With(Fp_square(K, p2.Z), LAMBDA Z2Z2 :
    With(Fp_mul(K, p1.X, Z2Z2), LAMBDA U1 :
    With(Fp_mul(K, p2.X, Z1Z1), LAMBDA U2 :
    With(Fp_mul(K, Fp_mul(K, p1.Y, p2.Z), Z2Z2), LAMBDA S1 :
    With(Fp_mul(K, Fp_mul(K, p2.Y, p1.Z), Z1Z1), LAMBDA S2 :
    With(Fp_sub(K, U2, U1), LAMBDA H :
    With(Fp_square(K, Fp_add(K, H, H)), LAMBDA I :
    With(Fp_mul(K, H, I), LAMBDA J :
    With(Fp_double(K, Fp_sub(K, S2, S1)), LAMBDA r :
    With(Fp_mul(K, U1, I), LAMBDA V :
    With(Fp_sub(K, Fp_sub(K, Fp_square(K, r), J), Fp_double(K, V)), LAMBDA X3 :
        JacobianPoint(
            X3,
            Fp_sub(K, Fp_mul(K, r, Fp_sub(K, V, X3)), Fp_mul(K, S1, Fp_double(K, J))),
            Fp_mul(K, Fp_sub(K, Fp_sub(K, Fp_square(K, Fp_add(K, p1.Z, p2.Z)), Z1Z1), Z2Z2),
                   H)))))))))))))))

Weierstrass_add_affine_in_place(W, p1, rhs) ==
    With(W.Field, LAMBDA K :
    With(Fp_square(K, p1.Z), LAMBDA Z1Z1 :
    With(Fp_mul(K, rhs.x, Z1Z1), LAMBDA U2 :
    With(Fp_mul(K, Fp_mul(K, rhs.y, p1.Z), Z1Z1), LAMBDA S2 :
    With(Fp_sub(K, U2, p1.X), LAMBDA H :
    With(Fp_square(K, H), LAMBDA HH :
    With(Fp_add(K, HH, HH), LAMBDA I :
    With(Fp_mul(K, H, I), LAMBDA J :
    With(Fp_double(K, Fp_sub(K, S2, p1.Y)), LAMBDA r :
    With(Fp_mul(K, p1.X, I), LAMBDA V :
    With(Fp_sub(K, Fp_sub(K, Fp_square(K, r), J), Fp_double(K, V)), LAMBDA X3 :
        JacobianPoint(
            X3,
            Fp_sub(K, Fp_mul(K, r, Fp_sub(K, V, X3)), Fp_mul(K, p1.Y, Fp_double(K, J))),
            Fp_sub(K, Fp_sub(K, Fp_square(K, Fp_add(K, p1.Z, H)), Z1Z1), HH)))))))))))))

Weierstrass_double_in_place(W, point) ==
    With(W.Field, LAMBDA K :
    With(Fp_square(K, point.X), LAMBDA XX :
    With(Fp_square(K, point.Y), LAMBDA YY :
    With(Fp_square(K, YY), LAMBDA YYYY :
    With(Fp_square(K, point.Z), LAMBDA ZZ :
    With(Fp_sub(K, Fp_sub(K, Fp_double(K, Fp_square(K, Fp_add(K, point.X, YY))), XX), YYYY),
         LAMBDA S :
    With(Fp_add(K, Fp_add(K, Fp_double(K, XX), XX), Fp_mul(K, W.A, Fp_square(K, ZZ))),
         LAMBDA M :
    With(Fp_sub(K, Fp_square(K, M), Fp_double(K, S)), LAMBDA T :
        JacobianPoint(
            T,
            Fp_sub(K, Fp_mul(K, M, Fp_sub(K, S, T)),
                   Fp_double(K, Fp_double(K, Fp_double(K, YYYY)))),
            Fp_sub(K, Fp_sub(K, Fp_square(K, Fp_add(K, point.Y, point.Z)), YY), ZZ))))))))))

----------------------------------------------------------------------------
(* SpecWeierstrass: the curves y^2 = x^3 + Ax + B over the curve fields,   *)
(* a point of the curve in Jacobian coordinates (lhs) and a point in       *)
(* affine coordinates (other), doubled and added once.                     *)

MaxCoefficient == 2

MaxJacobianZ == 2

\* the curve equation on the integers x, y modulo p
OnWeierstrass(p, A, B, x, y) == (y * y) % p = (x * x * x + A * x + B) % p

\* ShortWeierstrass: the nonsingular curves with small coefficients
WeierstrassCurves ==
    UNION {{[Field |-> K, A |-> LimbsOf(ab[1]), B |-> LimbsOf(ab[2])] :
               ab \in {c \in (0 .. MaxCoefficient) \X (0 .. MaxCoefficient) :
                          /\ c[1] < Val(K.P.MODULUS)
                          /\ c[2] < Val(K.P.MODULUS)
                          /\ (4 * c[1] * c[1] * c[1] + 27 * c[2] * c[2]) % Val(K.P.MODULUS) # 0}} :
              K \in {Fp_table[F] : F \in CurveFields}}

WeierstrassPoints(W) ==
    With(Val(W.Field.P.MODULUS), LAMBDA p :
        {xy \in (0 .. (p - 1)) \X (0 .. (p - 1)) :
            OnWeierstrass(p, Val(W.A), Val(W.B), xy[1], xy[2])})

\* the Jacobian coordinates (x z^2 : y z^3 : z) of the points of the curve
WeierstrassJacobianPoints(W) ==
    With(Val(W.Field.P.MODULUS), LAMBDA p :
        {JacobianPoint(LimbsOf((Pz[1][1] * Pz[2] * Pz[2]) % p),
                       LimbsOf((Pz[1][2] * Pz[2] * Pz[2] * Pz[2]) % p),
                       LimbsOf(Pz[2])) :
            Pz \in WeierstrassPoints(W) \X {z \in 1 .. MaxJacobianZ : z < p}})

WeierstrassAffinePoints(W) == {Affine(LimbsOf(xy[1]), LimbsOf(xy[2])) : xy \in WeierstrassPoints(W)}

\* the tangent rule: the double of the affine point P with y # 0
TangentRule(p, A, P) ==
    With(((3 * P[1] * P[1] + A) * InvMod(p, (2 * P[2]) % p)) % p, LAMBDA slope :
        With((slope * slope + 2 * (p - P[1])) % p, LAMBDA x3 :
            <<x3, (slope * (P[1] + p - x3) + (p - P[2])) % p>>))

\* the chord rule: the sum of the affine points P, Q of different x
ChordRule(p, P, Q) ==
    With(((Q[2] + p - P[2]) * InvMod(p, (Q[1] + p - P[1]) % p)) % p, LAMBDA slope :
        With((slope * slope + (p - P[1]) + (p - Q[1])) % p, LAMBDA x3 :
            <<x3, (slope * (P[1] + p - x3) + (p - P[2])) % p>>))

InitWeierstrass ==
    /\ \E c \in {[curve |-> W, points |-> WeierstrassJacobianPoints(W),
                  affine |-> WeierstrassAffinePoints(W)] : W \in WeierstrassCurves} :
          /\ params = c.curve
          /\ lhs \in c.points
          /\ other \in c.affine
    /\ op = "new"
    /\ args = <<>>
    /\ ret = <<>>

\* double_in_place(&mut lhs) for a point with Y # 0
OpWeierstrassDouble ==
    /\ op = "new"
    /\ lhs.Y # params.Field.zero
    /\ ret' = Weierstrass_double_in_place(params, lhs)
    /\ op' = "double_in_place"
    /\ UNCHANGED <<params, lhs, other, args>>

\* add_affine_in_place(&mut lhs, &other) and
\* add_in_place(&mut lhs, &JacobianPoint::from(other)) for points of
\* different x-coordinates
OpWeierstrassAddAffine ==
    /\ op = "new"
    /\ JacobianValue(params.Field.P, lhs)[1] # Val(other.x)
    /\ ret' = <<Weierstrass_add_affine_in_place(params, lhs, other),
                Weierstrass_add_in_place(params, lhs, JacobianPoint_from(params.Field, other))>>
    /\ op' = "add_affine_in_place"
    /\ UNCHANGED <<params, lhs, other, args>>

NextWeierstrass == OpWeierstrassDouble \/ OpWeierstrassAddAffine

SpecWeierstrass == InitWeierstrass /\ [][NextWeierstrass]_vars

\* C23: for every point P of the curve with Y # 0, double_in_place leaves
\* a point with Z # 0 that is the double of P by the tangent rule, with the
\* slope (3x^2 + A) / (2y).
C23_DoubleIsTangentRule ==
    op = "double_in_place" =>
        /\ ret.Z # params.Field.zero
        /\ JacobianValue(params.Field.P, ret)
              = TangentRule(Val(params.Field.P.MODULUS), Val(params.A),
                            JacobianValue(params.Field.P, lhs))

\* C24: for points of different x-coordinates, add_affine_in_place(lhs, a)
\* leaves a point equal (as JacobianPoint) to the one add_in_place(lhs,
\* JacobianPoint::from(a)) leaves, and both are the sum by the chord rule.
C24_AddAffineIsAdd ==
    op = "add_affine_in_place" =>
        /\ JacobianPoint_eq(params.Field, ret[1], ret[2])
        /\ ret[1].Z # params.Field.zero
        /\ ret[2].Z # params.Field.zero
        /\ JacobianValue(params.Field.P, ret[1])
              = ChordRule(Val(params.Field.P.MODULUS), JacobianValue(params.Field.P, lhs),
                          <<Val(other.x), Val(other.y)>>)
        /\ JacobianValue(params.Field.P, ret[2])
              = ChordRule(Val(params.Field.P.MODULUS), JacobianValue(params.Field.P, lhs),
                          <<Val(other.x), Val(other.y)>>)


----------------------------------------------------------------------------
(* SpecExtended: two points in extended coordinates, each the identity or  *)
(* the conversion of an affine pair, under every sequence of the in-place  *)
(* operations of EdwardsAM1UnifiedOperations; op is the last operation.    *)

MaxExtendedModulus == 5

ExtendedCurves == {E \in EdwardsCurves : Val(E.Field.P.MODULUS) <= MaxExtendedModulus}

\* Affine<F> is any pair of field elements: From does not call verify
Affines(K) == {Affine(x, y) : <<x, y>> \in StoredElements(K.P) \X StoredElements(K.P)}

InitExtended ==
    /\ \E c \in {[curve |-> E,
                  points |-> {Edwards_identity(E)}
                                \cup {ExtendedPoint_from(E.Field, a) : a \in Affines(E.Field)}] :
                    E \in ExtendedCurves} :
          /\ params = c.curve
          /\ lhs \in c.points
          /\ other \in c.points
    /\ op = "new"
    /\ args = <<>>
    /\ ret = <<>>

\* add_in_place(&mut lhs, &other)
AddInPlace ==
    /\ lhs' = Edwards_add_in_place(params, lhs, other)
    /\ op' = "add_in_place"
    /\ UNCHANGED <<params, other, args, ret>>

\* add_in_place(&mut other, &lhs)
AddInPlaceOther ==
    /\ other' = Edwards_add_in_place(params, other, lhs)
    /\ op' = "add_in_place"
    /\ UNCHANGED <<params, lhs, args, ret>>

\* add_affine_in_place(&mut lhs, &a)
AddAffineInPlace ==
    /\ \E a \in Affines(params.Field) :
          lhs' = Edwards_add_affine_in_place(params, lhs, a)
    /\ op' = "add_affine_in_place"
    /\ UNCHANGED <<params, other, args, ret>>

\* double_in_place(&mut lhs)
DoubleInPlaceExtended ==
    /\ lhs' = Edwards_double_in_place(params, lhs)
    /\ op' = "double_in_place"
    /\ UNCHANGED <<params, other, args, ret>>

\* neg_in_place(&mut lhs)
NegInPlace ==
    /\ lhs' = Edwards_neg_in_place(params, lhs)
    /\ op' = "neg_in_place"
    /\ UNCHANGED <<params, other, args, ret>>

NextExtended ==
    AddInPlace \/ AddInPlaceOther \/ AddAffineInPlace \/ DoubleInPlaceExtended \/ NegInPlace

SpecExtended == InitExtended /\ [][NextExtended]_vars

\* T * Z == X * Y
ExtendedInvariant(K, point) ==
    Fp_eq(K, Fp_mul(K, point.T, point.Z), Fp_mul(K, point.X, point.Y))

\* C27: every point obtained from identity() or From<Affine> by any
\* sequence of add_in_place, add_affine_in_place, double_in_place and
\* neg_in_place satisfies T * Z == X * Y.
C27_ExtendedInvariant ==
    /\ ExtendedInvariant(params.Field, lhs)
    /\ ExtendedInvariant(params.Field, other)

\* a mixed addition has left a point with Z other than one and zero and
\* with T other than zero
C27_Witness ==
    /\ op = "add_affine_in_place"
    /\ lhs.Z \notin {params.Field.one, params.Field.zero}
    /\ lhs.T # params.Field.zero
    /\ other.Z # params.Field.one


----------------------------------------------------------------------------
(* SpecSolinasLoop: SolinasReduction::reduction with its two loops run one *)
(* iteration per step.  lhs is a_l, other is a_h, op the position in the   *)
(* function, args = <<iterations of the folding loop, subtractions>>, each  *)
(* counted up to MaxCounted.                                               *)

MaxEdge == 3

MaxCounted == 2

\* the N-limb integers within MaxEdge of zero or of the largest one
EdgeInts == {x \in LimbInts : Val(x) <= MaxEdge \/ Val(x) >= RADIX - 1 - MaxEdge}

\* every modulus p > 0 and every constant C of one limb with b^N = C mod p
SolinasCongruentParameters ==
    {[strategy |-> "solinas", MODULUS |-> LimbsOf(p), C |-> C] :
        <<p, C>> \in {pc \in (1 .. (RADIX - 1)) \X Limbs : (RADIX - pc[2]) % pc[1] = 0}}

\* c_vec = [C, 0, 0, .., 0]
Solinas_c_vec(P) == [LimbInt_zero EXCEPT ![1] = P.C]

\* (a_l, a_h) = a_h.carrying_mul(c_vec, a_l)
Solinas_fold_iteration(c_vec, a) == carrying_mul(a[2], c_vec, a[1])

\* a loop body that leaves a_l as it is
Solinas_sub_iteration_skip(modules, a_l) == a_l

\* a_l = a_l.carrying_sub(modules, Self::Limb::NO).0
Solinas_sub_iteration(modules, a_l) == carrying_sub(a_l, modules, FALSE)[1]

InitSolinasLoop ==
    /\ params \in SolinasCongruentParameters
    /\ lhs \in EdgeInts
    /\ other \in EdgeInts
    /\ op = "new"
    /\ args = <<0, 0>>
    /\ ret = <<>>

\* the first fold, before the loop
ReductionEnter ==
    /\ op = "new"
    /\ \E a \in {Solinas_fold_iteration(Solinas_c_vec(params), <<lhs, other>>)} :
          lhs' = a[1] /\ other' = a[2]
    /\ op' = "fold"
    /\ UNCHANGED <<params, args, ret>>

\* while a_h.limbs != [ZERO; N]: the body
FoldIteration ==
    /\ op = "fold"
    /\ other # LimbInt_zero
    /\ \E a \in {Solinas_fold_iteration(Solinas_c_vec(params), <<lhs, other>>)} :
          lhs' = a[1] /\ other' = a[2]
    /\ args' = <<Min(args[1] + 1, MaxCounted), args[2]>>
    /\ UNCHANGED <<params, op, ret>>

\* the folding loop ends
FoldExit ==
    /\ op = "fold"
    /\ other = LimbInt_zero
    /\ op' = "subtract"
    /\ UNCHANGED <<params, lhs, other, args, ret>>

\* while modules.le(&a_l): the body
SubIteration ==
    /\ op = "subtract"
    /\ le(params.MODULUS, lhs)
    /\ lhs' = Solinas_sub_iteration(params.MODULUS, lhs)
    /\ args' = <<args[1], Min(args[2] + 1, MaxCounted)>>
    /\ UNCHANGED <<params, other, op, ret>>

\* the subtraction loop ends and a_l.limbs is returned
ReductionReturn ==
    /\ op = "subtract"
    /\ ~le(params.MODULUS, lhs)
    /\ ret' = lhs
    /\ op' = "return"
    /\ UNCHANGED <<params, lhs, other, args>>

NextSolinasLoop ==
    ReductionEnter \/ FoldIteration \/ FoldExit \/ SubIteration \/ ReductionReturn

SpecSolinasLoop == InitSolinasLoop /\ [][NextSolinasLoop]_vars

\* the function keeps running: sequential code takes its next step
SpecSolinasLoopFair == SpecSolinasLoop /\ WF_vars(NextSolinasLoop)

\* C28: reduction terminates on every double-width input, for every
\* modulus p > 0 and constant C with b^N = C mod p: both loops finish and
\* the function returns.
C28_ReductionTerminates == <>(op = "return")

\* a call that returned after the folding loop ran its body and the
\* subtraction loop ran more than once
C28_Witness ==
    /\ op = "return"
    /\ args[1] >= 1
    /\ args[2] >= 2


----------------------------------------------------------------------------
(* fields/models/montgomery.rs: the montgomery_reduction that chains the   *)
(* carry c through the additions of all rounds                             *)

\* one round of the loop; s = <<a_l, a_r, c>>
Models_montgomery_round(P, i, s) ==
    With(mul_carry(s[1][i + 1], P.MP, 0)[1], LAMBDA u :
    With([LimbInt_zero EXCEPT ![i + 1] = u], LAMBDA ui :
    With(carrying_mul(P.MODULUS, ui, LimbInt_zero), LAMBDA cc :
    With(carrying_add(s[1], cc[1], s[3]), LAMBDA low :
    With(carrying_add(s[2], cc[2], low[2]), LAMBDA high :
        <<low[1], high[1], high[2]>>)))))

Models_montgomery_rounds(P, element) ==
    LET st[i \in 0 .. N] ==
            IF i = 0 THEN <<element[1], element[2], FALSE>>
            ELSE With(st[i - 1], LAMBDA prev : Models_montgomery_round(P, i - 1, prev))
    IN  st[N]

\* the final carry adds R to a_r, then assert_eq!(a_l.limbs, [ZERO; N]) and
\* the conditional subtraction
Models_montgomery_reduction(P, element) ==
    With(Models_montgomery_rounds(P, element), LAMBDA s :
    With(IF s[3] # FALSE THEN carrying_add(s[2], P.R, FALSE)[1] ELSE s[2], LAMBDA a_r :
        IF s[1] # LimbInt_zero THEN Panic
        ELSE With(carrying_sub(a_r, P.MODULUS, FALSE), LAMBDA e :
                 IF e[2] = FALSE THEN e[1] ELSE a_r)))

\* the product of two N-limb integers (lhs, other), reduced, for an odd
\* modulus
InitModelsMont ==
    /\ params \in {MontParameters(p) : p \in OddModuli}
    /\ lhs \in LimbInts
    /\ other \in LimbInts
    /\ op = "new"
    /\ args = <<>>
    /\ ret = <<>>

\* montgomery_reduction(&lhs.carrying_mul(other, zero))
OpModelsReduction ==
    /\ op = "new"
    /\ \E product \in {carrying_mul(lhs, other, LimbInt_zero)} :
          /\ args' = product
          /\ ret' = Models_montgomery_reduction(params, product)
    /\ op' = "montgomery_reduction"
    /\ UNCHANGED <<params, lhs, other>>

NextModelsMont == OpModelsReduction

SpecModelsMont == InitModelsMont /\ [][NextModelsMont]_vars

\* C30: for every product of two N-limb integers and every odd modulus
\* p < b^N the assertion on the low half does not fail and the returned r
\* satisfies r * R = input mod p.
C30_ChainedReductionCongruent ==
    op = "montgomery_reduction" =>
        /\ ret # Panic
        /\ (Val(ret) * RADIX) % Val(params.MODULUS)
              = (Val(args[1]) + Val(args[2]) * RADIX) % Val(params.MODULUS)


====
